---- MODULE Spec2Model ----
(***************************************************************************)
(* TicTacFoe: the 3x3 board (game/base.rs) and the Ultimate board          *)
(* (game/ultimate.rs) as state machines driven by make_move calls, the     *)
(* MCTS agent (ai/mcts.rs) driven by choose_move, reset and                *)
(* switch_starting_mark, the one-ply agent (ai/simple.rs), the menu and    *)
(* the two game scenes (scenes.rs) with the cursor movement of utils.rs    *)
(* driven by the input calls, and the App (app.rs) driven by the keys.     *)
(*                                                                         *)
(* Option<T> is a sequence of length 0 (None) or 1 (Some(v)); GameState is *)
(* a tagged tuple.  A panic is a fatal error: the object is not used       *)
(* afterwards, and a panic of make_move leaves the board unchanged.        *)
(***************************************************************************)
EXTENDS Integers, Sequences, FiniteSets, TLC

\* Number of successful BigBoard::make_move calls explored off the recorded
\* game, from any position of it.
MaxMoves == 1

Mark == {"X", "O"}
None == <<>>
Some(v) == <<v>>

Playing == <<"Playing">>
Draw == <<"Draw">>
Won(mark) == <<"Won", mark>>

Idx == 0..2
CellIdx == 0..8

\* The panic messages of the two make_move functions.
MsgCompleted == "Error: tried making a move on a compeleted board."
MsgOccupied == "Error: tried making a move on an occupied position."
MsgBigCompleted == "Error: tried making a move on a compeleted big board."
MsgWrongBoard == "Error: tried making a move on a board different than the active board."

----------------------------------------------------------------------------
(* game/base.rs: the 3x3 board *)

Board_new == [cells |-> [i \in CellIdx |-> None], state |-> Playing]

Board_get(b, row, col) == b.cells[row * 3 + col]

Board_set(b, row, col, mark) == [b EXCEPT !.cells[row * 3 + col] = mark]

check_row(b, row) ==
    LET mark_0 == Board_get(b, row, 0)
    IN  IF mark_0 = None THEN None
        ELSE IF \E i \in 1..2 : Board_get(b, row, i) # mark_0 THEN None
        ELSE mark_0

check_col(b, col) ==
    LET mark_0 == Board_get(b, 0, col)
    IN  IF mark_0 = None THEN None
        ELSE IF \E i \in 1..2 : Board_get(b, i, col) # mark_0 THEN None
        ELSE mark_0

check_diag_dexter(b) ==
    LET mark_0 == Board_get(b, 0, 0)
    IN  IF mark_0 = None THEN None
        ELSE IF \E i \in 1..2 : Board_get(b, i, i) # mark_0 THEN None
        ELSE mark_0

\* check_diag_sinister reading the dexter diagonal below cell (0,2).
check_diag_sinister_dexter_cells(b) ==
    LET mark_0 == Board_get(b, 0, 2)
    IN  IF mark_0 = None THEN None
        ELSE IF \E i \in 1..2 : Board_get(b, i, i) # mark_0 THEN None
        ELSE mark_0

check_diag_sinister(b) ==
    LET mark_0 == Board_get(b, 0, 2)
    IN  IF mark_0 = None THEN None
        ELSE IF \E i \in 1..2 : Board_get(b, i, 2 - i) # mark_0 THEN None
        ELSE mark_0

\* The first Some(..) of a sequence of Option values, None when there is none.
FirstSome(opts) ==
    IF \A i \in DOMAIN opts : opts[i] = None THEN None
    ELSE opts[CHOOSE i \in DOMAIN opts :
                 /\ opts[i] # None
                 /\ \A j \in DOMAIN opts : j < i => opts[j] = None]

\* check_win: both diagonals, then row i and column i for i = 0, 1, 2; the
\* first complete line found sets the state and is returned.
Board_check_win(b) ==
    LET found == FirstSome(<<check_diag_dexter(b), check_diag_sinister(b),
                             check_row(b, 0), check_col(b, 0),
                             check_row(b, 1), check_col(b, 1),
                             check_row(b, 2), check_col(b, 2)>>)
    IN  [board |-> IF found = None THEN b ELSE [b EXCEPT !.state = Won(found[1])],
         ret |-> found]

\* check_complete: returns false at the first empty cell, else sets Draw.
Board_check_complete(b) ==
    IF \E i \in CellIdx : b.cells[i] = None
    THEN [board |-> b, ret |-> FALSE]
    ELSE [board |-> [b EXCEPT !.state = Draw], ret |-> TRUE]

\* make_move without the check of the board's state.
Board_make_move_no_state_check(b, row, col, mark) ==
    IF Board_get(b, row, col) # None THEN [board |-> b, panic |-> Some(MsgOccupied)]
    ELSE LET placed == Board_set(b, row, col, Some(mark))
             completed == Board_check_complete(placed).board
         IN  [board |-> Board_check_win(completed).board, panic |-> None]

\* make_move without the check of the target cell.
Board_make_move_no_cell_check(b, row, col, mark) ==
    IF b.state # Playing THEN [board |-> b, panic |-> Some(MsgCompleted)]
    ELSE LET placed == Board_set(b, row, col, Some(mark))
             completed == Board_check_complete(placed).board
         IN  [board |-> Board_check_win(completed).board, panic |-> None]

\* make_move calling check_win before check_complete.
Board_make_move_win_before_complete(b, row, col, mark) ==
    IF b.state # Playing THEN [board |-> b, panic |-> Some(MsgCompleted)]
    ELSE IF Board_get(b, row, col) # None THEN [board |-> b, panic |-> Some(MsgOccupied)]
    ELSE LET placed == Board_set(b, row, col, Some(mark))
             won == Board_check_win(placed).board
         IN  [board |-> Board_check_complete(won).board, panic |-> None]

\* make_move without the call of check_complete.
Board_make_move_no_complete_check(b, row, col, mark) ==
    IF b.state # Playing THEN [board |-> b, panic |-> Some(MsgCompleted)]
    ELSE IF Board_get(b, row, col) # None THEN [board |-> b, panic |-> Some(MsgOccupied)]
    ELSE [board |-> Board_check_win(Board_set(b, row, col, Some(mark))).board,
          panic |-> None]

\* make_move writing the cell before it checks that the cell was empty.
Board_make_move_set_before_check(b, row, col, mark) ==
    IF b.state # Playing THEN [board |-> b, panic |-> Some(MsgCompleted)]
    ELSE IF Board_get(b, row, col) # None
    THEN [board |-> Board_set(b, row, col, Some(mark)), panic |-> Some(MsgOccupied)]
    ELSE LET placed == Board_set(b, row, col, Some(mark))
             completed == Board_check_complete(placed).board
         IN  [board |-> Board_check_win(completed).board, panic |-> None]

\* make_move: the result holds the board after the call and the panic
\* message (None when the call returned normally).
Board_make_move(b, row, col, mark) ==
    IF b.state # Playing THEN [board |-> b, panic |-> Some(MsgCompleted)]
    ELSE IF Board_get(b, row, col) # None THEN [board |-> b, panic |-> Some(MsgOccupied)]
    ELSE LET placed == Board_set(b, row, col, Some(mark))
             completed == Board_check_complete(placed).board
         IN  [board |-> Board_check_win(completed).board, panic |-> None]

----------------------------------------------------------------------------
(* game/ultimate.rs: the 3x3 grid of boards *)

BigBoard_new ==
    [boards |-> [i \in CellIdx |-> Board_new], state |-> Playing, active_board |-> None]

get_board(bb, board_row, board_col) == bb.boards[board_row * 3 + board_col]

BigBoard_check_complete(bb) ==
    ~ \E board_row \in Idx, board_col \in Idx :
          bb.boards[board_row * 3 + board_col].state = Playing

\* get answering with the centre mark of a drawn sub-board.
BigBoard_get_draw_counts(bb, board_row, board_col) ==
    LET s == get_board(bb, board_row, board_col).state
    IN  IF s[1] = "Won" THEN Some(s[2])
        ELSE IF s = Draw THEN Board_get(get_board(bb, board_row, board_col), 1, 1)
        ELSE None

\* <BigBoard as Board>::get: the mark that won the sub-board, None for a
\* sub-board that is still played or drawn.
BigBoard_get(bb, board_row, board_col) ==
    LET s == get_board(bb, board_row, board_col).state
    IN  IF s[1] = "Won" THEN Some(s[2]) ELSE None

\* <BigBoard as Board>::is_playable
BigBoard_is_playable(bb, row, col) == get_board(bb, row, col).state = Playing

\* The free function check_win over the Board trait: the 3-row / 3-column /
\* 2-diagonal rule applied to BigBoard_get, diagonals first, then rows and
\* columns in increasing index order.
LineOf(bb, p0, p1, p2) ==
    LET mark_0 == BigBoard_get(bb, p0[1], p0[2])
    IN  IF mark_0 = None THEN None
        ELSE IF BigBoard_get(bb, p1[1], p1[2]) # mark_0 THEN None
        ELSE IF BigBoard_get(bb, p2[1], p2[2]) # mark_0 THEN None
        ELSE mark_0

check_win(bb) ==
    FirstSome(<<LineOf(bb, <<0, 0>>, <<1, 1>>, <<2, 2>>),
                LineOf(bb, <<0, 2>>, <<1, 1>>, <<2, 0>>),
                LineOf(bb, <<0, 0>>, <<0, 1>>, <<0, 2>>),
                LineOf(bb, <<0, 0>>, <<1, 0>>, <<2, 0>>),
                LineOf(bb, <<1, 0>>, <<1, 1>>, <<1, 2>>),
                LineOf(bb, <<0, 1>>, <<1, 1>>, <<2, 1>>),
                LineOf(bb, <<2, 0>>, <<2, 1>>, <<2, 2>>),
                LineOf(bb, <<0, 2>>, <<1, 2>>, <<2, 2>>)>>)

\* The two checks at the head of BigBoard::make_move without the second one.
make_move_checks_no_active_check(bb, board_row, board_col) ==
    IF bb.state # Playing THEN Some(MsgBigCompleted) ELSE None

\* The two checks at the head of BigBoard::make_move: the panic message, or
\* None when the call goes on to the sub-board.
make_move_checks(bb, board_row, board_col) ==
    IF bb.state # Playing THEN Some(MsgBigCompleted)
    ELSE IF bb.active_board # None /\ <<board_row, board_col>> # bb.active_board[1]
    THEN Some(MsgWrongBoard)
    ELSE None

\* The meta state with the win check before the completeness check.
make_move_state_win_before_complete(bb) ==
    LET won == IF check_win(bb) # None
               THEN [bb EXCEPT !.state = Won(check_win(bb)[1])] ELSE bb
    IN  IF BigBoard_check_complete(won) THEN [won EXCEPT !.state = Draw] ELSE won

\* The meta state after the sub-board's move: Draw when check_complete()
\* holds, then Won(mark) when check_win finds a line.
make_move_state(bb) ==
    LET drawn == IF BigBoard_check_complete(bb) THEN [bb EXCEPT !.state = Draw] ELSE bb
    IN  IF check_win(drawn) # None
        THEN [drawn EXCEPT !.state = Won(check_win(drawn)[1])]
        ELSE drawn

\* The next active board set without looking at the sub-board's state.
make_move_active_board_always_some(bb, cell_row, cell_col) ==
    Some(<<cell_row, cell_col>>)

\* The next active board: the sub-board at the cell's position when it is
\* Playing after the move, else None.
make_move_active_board(bb, cell_row, cell_col) ==
    IF get_board(bb, cell_row, cell_col).state = Playing
    THEN Some(<<cell_row, cell_col>>)
    ELSE None

\* make_move taking the next active board from the board before the move.
BigBoard_make_move_active_before_move(bb, board_row, board_col, cell_row, cell_col, mark) ==
    LET rejected == make_move_checks(bb, board_row, board_col)
        sub == Board_make_move(get_board(bb, board_row, board_col),
                               cell_row, cell_col, mark)
    IN  IF rejected # None THEN [board |-> bb, panic |-> rejected]
        ELSE IF sub.panic # None THEN [board |-> bb, panic |-> sub.panic]
        ELSE LET moved == [bb EXCEPT !.boards[board_row * 3 + board_col] = sub.board]
             IN  [board |-> [make_move_state(moved) EXCEPT !.active_board =
                                make_move_active_board(bb, cell_row, cell_col)],
                  panic |-> None]

\* BigBoard::make_move: the result holds the board after the call and the
\* panic message (None when the call returned normally).
BigBoard_make_move(bb, board_row, board_col, cell_row, cell_col, mark) ==
    LET rejected == make_move_checks(bb, board_row, board_col)
        sub == Board_make_move(get_board(bb, board_row, board_col),
                               cell_row, cell_col, mark)
    IN  IF rejected # None THEN [board |-> bb, panic |-> rejected]
        ELSE IF sub.panic # None THEN [board |-> bb, panic |-> sub.panic]
        ELSE LET moved == [bb EXCEPT !.boards[board_row * 3 + board_col] = sub.board]
                 stated == make_move_state(moved)
             IN  [board |-> [stated EXCEPT !.active_board =
                                make_move_active_board(stated, cell_row, cell_col)],
                  panic |-> None]

----------------------------------------------------------------------------
(* The Game capability of the two boards: the legal moves *)

\* The positions of a 3x3 grid in row-major order.
Positions == <<<<0, 0>>, <<0, 1>>, <<0, 2>>, <<1, 0>>, <<1, 1>>, <<1, 2>>,
               <<2, 0>>, <<2, 1>>, <<2, 2>>>>

IsEmptyCell(b, p) == Board_get(b, p[1], p[2]) = None

\* SmallBoard legal moves: all empty cells in row-major order when Playing,
\* the empty sequence when terminal.
Board_get_possible_moves(b) ==
    IF b.state # Playing THEN <<>>
    ELSE SelectSeq(Positions, LAMBDA p : IsEmptyCell(b, p))

\* The moves into one sub-board, as (board_row, board_col, cell_row, cell_col).
RECURSIVE SubBoardMoves(_, _, _)
SubBoardMoves(bb, bp, cells) ==
    IF cells = <<>> THEN <<>>
    ELSE <<<<bp[1], bp[2], Head(cells)[1], Head(cells)[2]>>>>
         \o SubBoardMoves(bb, bp, Tail(cells))

RECURSIVE AllBoardMoves(_, _)
AllBoardMoves(bb, bps) ==
    IF bps = <<>> THEN <<>>
    ELSE SubBoardMoves(bb, Head(bps),
                       Board_get_possible_moves(get_board(bb, Head(bps)[1], Head(bps)[2])))
         \o AllBoardMoves(bb, Tail(bps))

\* BigBoard legal moves: none when the meta game is terminal; else the empty
\* cells of the active sub-board, or of every sub-board still Playing when
\* there is no active sub-board.
BigBoard_get_possible_moves(bb) ==
    IF bb.state # Playing THEN <<>>
    ELSE IF bb.active_board # None THEN AllBoardMoves(bb, <<bb.active_board[1]>>)
    ELSE AllBoardMoves(bb, Positions)

----------------------------------------------------------------------------
(* The Game capability of SmallBoard, as the planning agents use it *)

\* Mark::switch: the other mark.
Mark_switch(mark) == IF mark = "X" THEN "O" ELSE "X"

\* Game::play on a SmallBoard: the move (row, col) made by mark.
Game_play(b, mv, mark) == Board_make_move(b, mv[1], mv[2], mark).board

\* Game::get_state.
Game_get_state(b) == b.state

\* Game::score: +1 when mark has won, -1 when the other mark has won, 0 for a
\* draw or a game in play.
Game_score(b, mark) ==
    IF b.state = Won(mark) THEN 1
    ELSE IF b.state = Won(Mark_switch(mark)) THEN 0 - 1
    ELSE 0

----------------------------------------------------------------------------
(* src/ai/mcts.rs: the Monte Carlo Tree Search agent over SmallBoard.       *)
(* The arena `nodes` is a sequence; node id n is element n + 1.  wins is    *)
(* kept in half points (wins2 = 2 * wins), so a draw adds 1 and a win 2.    *)

\* Rounds of selection, simulation and back-propagation per choose_move
\* explored here (N_ROUNDS is 1000 in the source).
N_ROUNDS == 3

MsgNoMoves == "No available moves found by MCTSAi"
MsgNotFound == "Board state following move was not found in MCTS."
MsgSwitch == "Starting mark must be switched before any tree expansion."
MsgUnwrapNone == "called Option::unwrap() on a None value"
MsgNoReturn == "selection loops forever"

\* The sequence s without its i-th element.
RemoveAt(s, i) == SubSeq(s, 1, i - 1) \o SubSeq(s, i + 1, Len(s))

\* Every order possible_moves.shuffle(&mut rng) can leave.
RECURSIVE Shuffles(_)
Shuffles(s) ==
    IF Len(s) = 0 THEN {<<>>}
    ELSE UNION {{<<s[i]>> \o t : t \in Shuffles(RemoveAt(s, i))} : i \in 1..Len(s)}

\* Node::new: a leaf for board with active_player to move; one node per
\* order of the shuffled legal moves.
Node_new(b, active_player, parent) ==
    {[parent |-> parent, children |-> None, board |-> b,
      active_player |-> active_player, wins2 |-> 0, plays |-> 0,
      possible_moves |-> pm] : pm \in Shuffles(Board_get_possible_moves(b))}

\* MCTSAi::new: a single root for board; the first player is taken to be X.
MCTSAi_new(b) == {<<n>> : n \in Node_new(b, "X", None)}

\* 1000000 * sqrt(2) * sqrt(ln(total_plays) / plays), rounded, for
\* total_plays (row) and plays (column) from 1 to 16.
ExploreMicro ==
<<
    <<0, 0, 0, 0, 0, 0, 0, 0, 0, 0, 0, 0, 0, 0, 0, 0>>,
    <<1177410, 832555, 679778, 588705, 526554, 480676, 445019, 416277, 392470, 372330, 355002, 339889, 326555, 314676, 304006, 294353>>,
    <<1482304, 1048147, 855809, 741152, 662906, 605148, 560258, 524074, 494101, 468746, 446931, 427904, 411117, 396162, 382729, 370576>>,
    <<1665109, 1177410, 961351, 832555, 744659, 679778, 629352, 588705, 555036, 526554, 502049, 480676, 461818, 445019, 429929, 416277>>,
    <<1794123, 1268636, 1035837, 897061, 802356, 732447, 678115, 634318, 598041, 567351, 540948, 517919, 497600, 479499, 463240, 448531>>,
    <<1893018, 1338566, 1092935, 946509, 846584, 772822, 715494, 669283, 631006, 598625, 570767, 546467, 525029, 505930, 488775, 473255>>,
    <<1972770, 1394959, 1138979, 986385, 882249, 805380, 745637, 697479, 657590, 623845, 594812, 569490, 547148, 527245, 509367, 493192>>,
    <<2039334, 1442027, 1177410, 1019667, 912018, 832555, 770796, 721013, 679778, 644894, 614882, 588705, 565609, 545035, 526554, 509833>>,
    <<2096294, 1482304, 1210296, 1048147, 937491, 855809, 792325, 741152, 698765, 662906, 632056, 605148, 581407, 560258, 541261, 524074>>,
    <<2145966, 1517427, 1238974, 1072983, 959705, 876087, 811099, 758714, 715322, 678614, 647033, 619487, 595184, 573534, 554086, 536492>>,
    <<2189929, 1548514, 1264356, 1094965, 979366, 894035, 827715, 774257, 729976, 692516, 660289, 632178, 607377, 585283, 565437, 547482>>,
    <<2229308, 1576359, 1287091, 1114654, 996977, 910111, 842599, 788179, 743103, 704969, 672162, 643546, 618299, 595808, 575605, 557327>>,
    <<2264928, 1601546, 1307657, 1132464, 1012907, 924653, 856062, 800773, 754976, 716233, 682901, 653828, 628178, 605327, 584802, 566232>>,
    <<2297415, 1624518, 1326413, 1148707, 1027435, 937916, 868341, 812259, 765805, 726506, 692697, 663207, 637188, 614010, 593190, 574354>>,
    <<2327252, 1645615, 1343639, 1163626, 1040779, 950097, 879618, 822808, 775751, 735942, 701693, 671820, 645463, 621984, 600894, 581813>>,
    <<2354820, 1665109, 1359556, 1177410, 1053108, 961351, 890038, 832555, 784940, 744659, 710005, 679778, 653110, 629352, 608012, 588705>>
>>

\* potential with the win rate wins / total_plays for its first term.
potential_win_rate(node, total_plays) ==
    node.wins2 * 1000000
        + 2 * total_plays * ExploreMicro[total_plays][node.plays]

\* Node::potential for total_plays >= 1, in units of 1 / (2000000 *
\* total_plays): the loss rate (plays - wins) / total_plays plus the
\* exploration term.
potential(node, total_plays) ==
    (2 * node.plays - node.wins2) * 1000000
        + 2 * total_plays * ExploreMicro[total_plays][node.plays]

\* winning_chance that always answers for the node's active player.
winning_chance_own_side(node, ai_mark) ==
    IF node.plays <= 0 THEN <<0, 1>> ELSE <<node.wins2, 2 * node.plays>>

\* Node::winning_chance as the fraction <<numerator, denominator>>.
winning_chance(node, ai_mark) ==
    IF node.plays <= 0 THEN <<0, 1>>
    ELSE IF ai_mark = node.active_player THEN <<node.wins2, 2 * node.plays>>
    ELSE <<2 * node.plays - node.wins2, 2 * node.plays>>

\* a > b for two fractions with positive denominators.
Greater(a, b) == a[1] * b[2] > b[1] * a[2]

\* The ids first + k - 1, ..., first + 1, first: the range in falling order.
IdRange_falling(first, k) == [j \in 1..k |-> first + k - j]

\* The ids first, first + 1, ..., first + k - 1.
RECURSIVE IdRange(_, _)
IdRange(first, k) ==
    IF k = 0 THEN <<>> ELSE Append(IdRange(first, k - 1), first + k - 1)

\* The children built with the parent's own active player to move again.
RECURSIVE NewChildren_same_player(_, _, _)
NewChildren_same_player(ns, parent_id, i) ==
    IF i = 0 THEN {<<>>}
    ELSE LET p == ns[parent_id + 1]
             new_board == Game_play(p.board, p.possible_moves[i], p.active_player)
         IN  {Append(cs, c) :
                 cs \in NewChildren_same_player(ns, parent_id, i - 1),
                 c \in Node_new(new_board, p.active_player, Some(parent_id))}

\* The children make_children builds for the first i possible moves.
RECURSIVE NewChildren(_, _, _)
NewChildren(ns, parent_id, i) ==
    IF i = 0 THEN {<<>>}
    ELSE LET p == ns[parent_id + 1]
             new_board == Game_play(p.board, p.possible_moves[i], p.active_player)
         IN  {Append(cs, c) :
                 cs \in NewChildren(ns, parent_id, i - 1),
                 c \in Node_new(new_board, Mark_switch(p.active_player), Some(parent_id))}

\* make_children that lists the expanded node as its own only child.
make_children_own_child(ns, parent_id) ==
    {[ns EXCEPT ![parent_id + 1].children =
          Some(IF Len(ns[parent_id + 1].possible_moves) = 0 THEN <<>>
               ELSE <<parent_id>>)]}

\* make_children: one child per possible move of parent_id, appended to the
\* arena in the order of the moves.
make_children(ns, parent_id) ==
    LET k == Len(ns[parent_id + 1].possible_moves)
        children_ids == IdRange(Len(ns), k)
    IN  {[ns EXCEPT ![parent_id + 1].children = Some(children_ids)] \o cs :
            cs \in NewChildren(ns, parent_id, k)}

\* reroot that also starts the new root afresh, without plays and wins.
reroot_clears_statistics(ns, root_id, new_root_id) ==
    [nodes |-> [ns EXCEPT ![root_id + 1].parent = None,
                          ![new_root_id + 1].plays = 0,
                          ![new_root_id + 1].wins2 = 0],
     root_id |-> new_root_id]

\* reroot: clears the parent of the node that is the root when the call
\* starts, then rebinds root_id.
reroot(ns, root_id, new_root_id) ==
    [nodes |-> [ns EXCEPT ![root_id + 1].parent = None], root_id |-> new_root_id]

\* The first child of the list with a board equal to b, None without one.
RECURSIVE FirstMatch(_, _, _, _)
FirstMatch(ns, children, b, i) ==
    IF i > Len(children) THEN None
    ELSE IF ns[children[i] + 1].board = b THEN Some(children[i])
    ELSE FirstMatch(ns, children, b, i + 1)

\* find_state looking only at the children of the root.
find_state_children_only(ns, root_id, b) ==
    LET expanded == IF ns[root_id + 1].children = None
                    THEN make_children(ns, root_id)
                    ELSE {ns}
    IN  {LET found == FirstMatch(ex, ex[root_id + 1].children[1], b, 1)
         IN  IF found = None
             THEN [nodes |-> ex, id |-> root_id, panic |-> Some(MsgNotFound)]
             ELSE [nodes |-> ex, id |-> found[1], panic |-> None]
         : ex \in expanded}

\* find_state: the root when its board is b, else the first direct child
\* with board b (the root is expanded first when it has no children list),
\* else a panic.
find_state(ns, root_id, b) ==
    IF ns[root_id + 1].board = b
    THEN {[nodes |-> ns, id |-> root_id, panic |-> None]}
    ELSE LET expanded == IF ns[root_id + 1].children = None
                         THEN make_children(ns, root_id)
                         ELSE {ns}
         IN  {LET found == FirstMatch(ex, ex[root_id + 1].children[1], b, 1)
              IN  IF found = None
                  THEN [nodes |-> ex, id |-> root_id, panic |-> Some(MsgNotFound)]
                  ELSE [nodes |-> ex, id |-> found[1], panic |-> None]
              : ex \in expanded}

\* selection's scan taking the last child without a play.
FirstUnexplored_takes_last(ns, children, i) ==
    LET zero == {j \in i..Len(children) : ns[children[j] + 1].plays = 0}
    IN  IF zero = {} THEN None
        ELSE Some(children[CHOOSE j \in zero : \A k \in zero : k <= j])

\* The first child of the list without a play, None when all were visited.
RECURSIVE FirstUnexplored(_, _, _)
FirstUnexplored(ns, children, i) ==
    IF i > Len(children) THEN None
    ELSE IF ns[children[i] + 1].plays = 0 THEN Some(children[i])
    ELSE FirstUnexplored(ns, children, i + 1)

\* The scan of selection for the child with the best potential: best_child
\* starts as 0 and best_potential as -1.0, and a child replaces them only
\* with a strictly greater potential.  With total_plays - 1 = 0 the
\* potential is NaN (ln 0 under the square root), which is greater than
\* nothing, so best_child stays what it was.
RECURSIVE best_child(_, _, _, _, _, _)
best_child(ns, children, total_plays, i, best, best_potential) ==
    IF i > Len(children) THEN best
    ELSE LET child == ns[children[i] + 1]
         IN  IF total_plays - 1 >= 1
                /\ potential(child, total_plays - 1) > best_potential
             THEN best_child(ns, children, total_plays, i + 1, children[i],
                             potential(child, total_plays - 1))
             ELSE best_child(ns, children, total_plays, i + 1, best, best_potential)

\* selection from starting_node: the arenas it can leave with the node it
\* returns.  It expands at most one node and then stops, so a walk of more
\* than Len(ns) + 1 nodes revisits one and never returns: selected is -1.
RECURSIVE selection_from(_, _, _)
selection_from(ns, starting_node, fuel) ==
    LET total_plays == ns[starting_node + 1].plays
    IN  IF total_plays = 0 THEN {[nodes |-> ns, selected |-> starting_node]}
        ELSE UNION {
            LET children == ex[starting_node + 1].children[1]
                unexplored == FirstUnexplored(ex, children, 1)
            IN  IF Len(children) = 0
                THEN {[nodes |-> ex, selected |-> starting_node]}
                ELSE IF unexplored # None
                THEN {[nodes |-> ex, selected |-> unexplored[1]]}
                ELSE IF fuel = 0
                THEN {[nodes |-> ex, selected |-> 0 - 1]}
                ELSE selection_from(ex, best_child(ex, children, total_plays, 1, 0,
                                                   0 - 2 * (total_plays - 1) * 1000000),
                                    fuel - 1)
            : ex \in (IF ns[starting_node + 1].children = None
                      THEN make_children(ns, starting_node)
                      ELSE {ns})}

\* The calls of potential that the scan of selection makes at one node: one
\* for every child that comes before the first child without a play, each
\* with total_plays - 1 for its argument.
scan_calls(ns, children, total_plays) ==
    {[child |-> children[j], total_plays |-> total_plays - 1] :
        j \in {i \in 1..Len(children) :
                  \A h \in 1..i : ns[children[h] + 1].plays # 0}}

\* The calls of potential during selection from starting_node.
RECURSIVE potential_calls(_, _, _)
potential_calls(ns, starting_node, fuel) ==
    LET total_plays == ns[starting_node + 1].plays
    IN  IF total_plays = 0 THEN {}
        ELSE UNION {
            LET children == ex[starting_node + 1].children[1]
                unexplored == FirstUnexplored(ex, children, 1)
            IN  IF Len(children) = 0 THEN {}
                ELSE scan_calls(ex, children, total_plays) \cup
                     (IF unexplored # None \/ fuel = 0 THEN {}
                      ELSE potential_calls(ex,
                               best_child(ex, children, total_plays, 1, 0,
                                          0 - 2 * (total_plays - 1) * 1000000),
                               fuel - 1))
            : ex \in (IF ns[starting_node + 1].children = None
                      THEN make_children(ns, starting_node)
                      ELSE {ns})}

\* selection: the walk from the root.
selection(ns, root_id) == selection_from(ns, root_id, Len(ns) + 1)

\* simulate: the states a random playout can end in, from board b with
\* active_player to move.
RECURSIVE simulate_from(_, _)
simulate_from(b, active_player) ==
    IF Game_get_state(b) # Playing THEN {Game_get_state(b)}
    ELSE LET possible_moves == Board_get_possible_moves(b)
         IN  UNION {simulate_from(Game_play(b, possible_moves[i], active_player),
                                  Mark_switch(active_player))
                    : i \in 1..Len(possible_moves)}

simulate(ns, node_id) ==
    simulate_from(ns[node_id + 1].board, ns[node_id + 1].active_player)

\* simulate's loop handing every move to the mark that moved first.
RECURSIVE simulate_runs_one_mark(_, _, _)
simulate_runs_one_mark(b, active_player, played) ==
    IF Game_get_state(b) # Playing
    THEN {[result |-> Game_get_state(b), played |-> played, panic |-> None]}
    ELSE LET possible_moves == Board_get_possible_moves(b)
         IN  IF Len(possible_moves) = 0
             THEN {[result |-> Playing, played |-> played, panic |-> Some(MsgUnwrapNone)]}
             ELSE UNION {simulate_runs_one_mark(
                             Game_play(b, possible_moves[i], active_player),
                             active_player,
                             Append(played, <<possible_moves[i], active_player>>))
                         : i \in 1..Len(possible_moves)}

\* simulate's loop with the moves it makes: every playout from board b with
\* active_player to move, as the state returned and the sequence of
\* <<move, mark>> played before; choosing from an empty move list panics.
RECURSIVE simulate_runs(_, _, _)
simulate_runs(b, active_player, played) ==
    IF Game_get_state(b) # Playing
    THEN {[result |-> Game_get_state(b), played |-> played, panic |-> None]}
    ELSE LET possible_moves == Board_get_possible_moves(b)
         IN  IF Len(possible_moves) = 0
             THEN {[result |-> Playing, played |-> played, panic |-> Some(MsgUnwrapNone)]}
             ELSE UNION {simulate_runs(
                             Game_play(b, possible_moves[i], active_player),
                             Mark_switch(active_player),
                             Append(played, <<possible_moves[i], active_player>>))
                         : i \in 1..Len(possible_moves)}

\* back_propagate crediting a won playout to every node, whoever won.
RECURSIVE back_propagate_any_win(_, _, _)
back_propagate_any_win(ns, node_id, result) ==
    LET node == ns[node_id + 1]
        counted == [ns EXCEPT ![node_id + 1].plays = @ + 1,
                              ![node_id + 1].wins2 = @ + (IF result[1] = "Won" THEN 2 ELSE 1)]
    IN  IF node.parent = None THEN counted
        ELSE back_propagate_any_win(counted, node.parent[1], result)

\* back_propagate crediting the selected node alone.
back_propagate_selected_only(ns, node_id, result) ==
    [ns EXCEPT ![node_id + 1].plays = @ + 1,
               ![node_id + 1].wins2 = @ + (IF result[1] = "Won"
                                           THEN (IF result[2] = ns[node_id + 1].active_player
                                                 THEN 2 ELSE 0)
                                           ELSE 1)]

\* back_propagate: from node_id up the parent links; every node on the way
\* gets one play, and a win (2 half points) when the result is Won by its
\* active player, nothing when Won by the other mark and half a win for
\* every other result.
RECURSIVE back_propagate(_, _, _)
back_propagate(ns, node_id, result) ==
    LET node == ns[node_id + 1]
        credit == IF result[1] = "Won"
                  THEN (IF result[2] = node.active_player THEN 2 ELSE 0)
                  ELSE 1
        counted == [ns EXCEPT ![node_id + 1].plays = @ + 1,
                              ![node_id + 1].wins2 = @ + credit]
    IN  IF node.parent = None THEN counted
        ELSE back_propagate(counted, node.parent[1], result)

\* The scan of choose_move for the child with the best winning chance:
\* best_move_id starts as 0 and best_chance as 0.0, and child i replaces
\* them only with a strictly greater chance.
RECURSIVE best_move_scan(_, _, _, _, _, _)
best_move_scan(ns, children_ids, ai_mark, i, best_move_id, best_chance) ==
    IF i >= Len(children_ids) THEN best_move_id
    ELSE LET chance == winning_chance(ns[children_ids[i + 1] + 1], ai_mark)
         IN  IF Greater(chance, best_chance)
             THEN best_move_scan(ns, children_ids, ai_mark, i + 1, i, chance)
             ELSE best_move_scan(ns, children_ids, ai_mark, i + 1, best_move_id,
                                 best_chance)

\* The end of choose_move advancing the root to the first child whatever
\* move it returns.
choose_move_best_first_child_root(ns, root_id, ai_mark) ==
    LET root == ns[root_id + 1]
    IN  IF root.children = None
        THEN [nodes |-> ns, root_id |-> root_id, move |-> None,
              panic |-> Some(MsgUnwrapNone)]
        ELSE IF Len(root.possible_moves) = 0
        THEN [nodes |-> ns, root_id |-> root_id, move |-> None,
              panic |-> Some(MsgNoMoves)]
        ELSE LET children_ids == root.children[1]
                 best_move_id == best_move_scan(ns, children_ids, ai_mark, 0, 0, <<0, 1>>)
                 rerooted == reroot(ns, root_id, children_ids[1])
             IN  [nodes |-> rerooted.nodes, root_id |-> rerooted.root_id,
                  move |-> Some(root.possible_moves[best_move_id + 1]),
                  panic |-> None]

\* The end of choose_move without the check for an empty move list: the
\* index into possible_moves is then out of bounds.
choose_move_best_no_moves_check(ns, root_id, ai_mark) ==
    LET root == ns[root_id + 1]
    IN  IF root.children = None
        THEN [nodes |-> ns, root_id |-> root_id, move |-> None,
              panic |-> Some(MsgUnwrapNone)]
        ELSE IF Len(root.possible_moves) = 0
        THEN [nodes |-> ns, root_id |-> root_id, move |-> None,
              panic |-> Some("index out of bounds")]
        ELSE LET children_ids == root.children[1]
                 best_move_id == best_move_scan(ns, children_ids, ai_mark, 0, 0, <<0, 1>>)
                 rerooted == reroot(ns, root_id, children_ids[best_move_id + 1])
             IN  [nodes |-> rerooted.nodes, root_id |-> rerooted.root_id,
                  move |-> Some(root.possible_moves[best_move_id + 1]),
                  panic |-> None]

\* The end of choose_move, after the rounds: the move of the best child is
\* returned and the root advanced to that child.
choose_move_best(ns, root_id, ai_mark) ==
    LET root == ns[root_id + 1]
    IN  IF root.children = None
        THEN [nodes |-> ns, root_id |-> root_id, move |-> None,
              panic |-> Some(MsgUnwrapNone)]
        ELSE IF Len(root.possible_moves) = 0
        THEN [nodes |-> ns, root_id |-> root_id, move |-> None,
              panic |-> Some(MsgNoMoves)]
        ELSE LET children_ids == root.children[1]
                 best_move_id == best_move_scan(ns, children_ids, ai_mark, 0, 0, <<0, 1>>)
                 rerooted == reroot(ns, root_id, children_ids[best_move_id + 1])
             IN  [nodes |-> rerooted.nodes, root_id |-> rerooted.root_id,
                  move |-> Some(root.possible_moves[best_move_id + 1]),
                  panic |-> None]

\* switch_starting_mark without the check of the arena's length.
switch_starting_mark_no_check(ns) ==
    [nodes |-> [ns EXCEPT ![1].active_player = Mark_switch(@)], panic |-> None]

\* switch_starting_mark: flips the active player of node 0 of a one-node
\* arena, and panics on any other arena.
switch_starting_mark(ns) ==
    IF Len(ns) # 1 THEN [nodes |-> ns, panic |-> Some(MsgSwitch)]
    ELSE [nodes |-> [ns EXCEPT ![1].active_player = Mark_switch(@)], panic |-> None]

\* reset keeping node 0 itself, cleared of its children.
reset_reuses_node(ns) ==
    {[nodes |-> <<[ns[1] EXCEPT !.children = None, !.parent = None,
                                !.active_player = "X"]>>,
      root_id |-> 0]}

\* reset whose fresh node carries over the plays and wins of node 0.
reset_keeps_statistics(ns) ==
    {[nodes |-> <<[n EXCEPT !.plays = ns[1].plays, !.wins2 = ns[1].wins2]>>,
      root_id |-> 0] : n \in Node_new(ns[1].board, "X", None)}

\* reset whose fresh node keeps the active player of node 0.
reset_keeps_active_player(ns) ==
    {[nodes |-> <<n>>, root_id |-> 0] :
        n \in Node_new(ns[1].board, ns[1].active_player, None)}

\* reset: a fresh one-node arena for the board of node 0.
reset(ns) ==
    {[nodes |-> <<n>>, root_id |-> 0] : n \in Node_new(ns[1].board, "X", None)}

----------------------------------------------------------------------------
(* src/ai/simple.rs: the one-ply agent, over SmallBoard *)

MsgSimpleNoMoves == "No available moves found by SimpleAi"

\* SimpleAi::new: the enemy mark that goes with ai_mark.
SimpleAi_new(mark) ==
    [ai_mark |-> mark, enemy_mark |-> IF mark = "O" THEN "X" ELSE "O"]

\* The inner loop of choose_move: some move of the enemy on board_i leaves a
\* score worse than the starting one.
is_losing(ai, board_i, original_ai_score) ==
    LET enemy_moves == Board_get_possible_moves(board_i)
    IN  \E j \in 1..Len(enemy_moves) :
            Game_score(Game_play(board_i, enemy_moves[j], ai.enemy_mark), ai.ai_mark)
                < original_ai_score

\* The outer loop of choose_move, from the last move (index i, counted from
\* 1) down to the first: it returns the first move found that improves the
\* score, and removes a losing move from non_losing_moves at its index.
RECURSIVE choose_move_scan(_, _, _, _, _, _)
choose_move_scan(ai, b, ai_moves, original_ai_score, i, non_losing_moves) ==
    IF i = 0 THEN [returned |-> None, non_losing_moves |-> non_losing_moves]
    ELSE LET board_i == Game_play(b, ai_moves[i], ai.ai_mark)
         IN  IF Game_score(board_i, ai.ai_mark) > original_ai_score
             THEN [returned |-> Some(ai_moves[i]), non_losing_moves |-> non_losing_moves]
             ELSE IF is_losing(ai, board_i, original_ai_score)
             THEN choose_move_scan(ai, b, ai_moves, original_ai_score, i - 1,
                                   RemoveAt(non_losing_moves, i))
             ELSE choose_move_scan(ai, b, ai_moves, original_ai_score, i - 1,
                                   non_losing_moves)

\* choose_move that only moves at random.
SimpleAi_choose_move_random(ai, b) ==
    LET ai_moves == Board_get_possible_moves(b)
    IN  IF Len(ai_moves) = 0
        THEN [moves |-> {}, panic |-> Some(MsgSimpleNoMoves)]
        ELSE [moves |-> {ai_moves[k] : k \in 1..Len(ai_moves)}, panic |-> None]

\* SimpleAi::choose_move: the moves it can return (the random choices give
\* more than one), or the panic on a board without legal moves.
SimpleAi_choose_move(ai, b) ==
    LET ai_moves == Board_get_possible_moves(b)
        scan == choose_move_scan(ai, b, ai_moves, Game_score(b, ai.ai_mark),
                                 Len(ai_moves), ai_moves)
    IN  IF Len(ai_moves) = 0
        THEN [moves |-> {}, panic |-> Some(MsgSimpleNoMoves)]
        ELSE IF scan.returned # None
        THEN [moves |-> {scan.returned[1]}, panic |-> None]
        ELSE IF Len(scan.non_losing_moves) > 0
        THEN [moves |-> {scan.non_losing_moves[k] : k \in 1..Len(scan.non_losing_moves)},
              panic |-> None]
        ELSE [moves |-> {ai_moves[k] : k \in 1..Len(ai_moves)}, panic |-> None]

----------------------------------------------------------------------------
(* src/utils.rs: the selection cursor over a 3x3 grid.  A board is passed   *)
(* as the set `playable` of the positions its is_playable accepts.          *)

\* <SmallBoard as Board>::is_playable: the cell is empty.
Board_is_playable(b, row, col) == Board_get(b, row, col) = None

\* The positions of board b that is_playable accepts.
Board_playable(b) ==
    {p \in Idx \X Idx : Board_is_playable(b, p[1], p[2])}

move_selection_left(selected) ==
    IF selected.col > 0 THEN [selected EXCEPT !.col = @ - 1]
    ELSE [selected EXCEPT !.col = 2]

move_selection_right(selected) == [selected EXCEPT !.col = (@ + 1) % 3]

move_selection_up(selected) ==
    IF selected.row > 0 THEN [selected EXCEPT !.row = @ - 1]
    ELSE [selected EXCEPT !.row = 2]

move_selection_down(selected) == [selected EXCEPT !.row = (@ + 1) % 3]

move_selection_next(selected) ==
    IF selected.col + 1 >= 3
    THEN [row |-> IF selected.row + 1 >= 3 THEN 0 ELSE selected.row + 1, col |-> 0]
    ELSE [selected EXCEPT !.col = @ + 1]

\* One step of the cursor in direction dir.
move_selection(selected, dir) ==
    CASE dir = "left" -> move_selection_left(selected)
      [] dir = "right" -> move_selection_right(selected)
      [] dir = "up" -> move_selection_up(selected)
      [] dir = "down" -> move_selection_down(selected)

\* The inner loop of move_selection_*_playable: up to k checks, stepping in
\* direction side after each failed one.
RECURSIVE inner_scan(_, _, _, _)
inner_scan(playable, selected, side, k) ==
    IF k = 0 THEN [returned |-> FALSE, selected |-> selected]
    ELSE IF <<selected.row, selected.col>> \in playable
    THEN [returned |-> TRUE, selected |-> selected]
    ELSE inner_scan(playable, move_selection(selected, side), side, k - 1)

\* The cursor moved one cell in direction dir, playable or not.
move_selection_playable_one_step(playable, selected, dir, k) ==
    move_selection(selected, dir)

\* The outer loop of move_selection_*_playable: up to k steps in direction
\* dir, each followed by the inner loop across it; the side direction comes
\* from the row (for left and right) or column (for up and down) the cursor
\* has before the step.
RECURSIVE move_selection_playable(_, _, _, _)
move_selection_playable(playable, selected, dir, k) ==
    IF k = 0 THEN selected
    ELSE LET side == IF dir \in {"left", "right"}
                     THEN (IF selected.row = 2 THEN "up" ELSE "down")
                     ELSE (IF selected.col = 2 THEN "left" ELSE "right")
             r == inner_scan(playable, move_selection(selected, dir), side, 3)
         IN  IF r.returned THEN r.selected
             ELSE move_selection_playable(playable, r.selected, dir, k - 1)

move_selection_left_playable(playable, selected) ==
    move_selection_playable(playable, selected, "left", 3)

move_selection_right_playable(playable, selected) ==
    move_selection_playable(playable, selected, "right", 3)

move_selection_up_playable(playable, selected) ==
    move_selection_playable(playable, selected, "up", 3)

move_selection_down_playable(playable, selected) ==
    move_selection_playable(playable, selected, "down", 3)

\* The loop of reset_position: up to k checks in row-major order.
RECURSIVE reset_position_from(_, _, _)
reset_position_from(playable, selected, k) ==
    IF k = 0 THEN selected
    ELSE IF <<selected.row, selected.col>> \in playable THEN selected
    ELSE reset_position_from(playable, move_selection_next(selected), k - 1)

\* reset_position: the first playable position in row-major order, (0, 0)
\* when there is none.
reset_position(playable) ==
    reset_position_from(playable, [row |-> 0, col |-> 0], 9)

----------------------------------------------------------------------------
(* src/scenes.rs: Menu and GamePlayTTT *)

MAIN_MENU_OPTIONS == <<"Ultimate Tic Tac Toe", "Tic Tac Toe", "Quit">>
TTT_MENU_OPTIONS == <<"Local PvP", "Play vs AI", "Back">>
UTT_MENU_OPTIONS == <<"Local PvP", "Back">>

MsgNoAi == "Error: no AI is available."

Menu_new(options) == [selected_option |-> 0, options |-> options]

\* move_up with the wrap going to the first option.
Menu_move_up_wraps_to_top(menu) ==
    IF menu.selected_option > 0
    THEN [menu EXCEPT !.selected_option = @ - 1]
    ELSE [menu EXCEPT !.selected_option = 0]

\* Menu::move_up, for a menu with at least one option.
Menu_move_up(menu) ==
    IF menu.selected_option > 0
    THEN [menu EXCEPT !.selected_option = @ - 1]
    ELSE [menu EXCEPT !.selected_option = Len(menu.options) - 1]

\* Menu::move_down, for a menu with at least one option.
Menu_move_down(menu) ==
    [menu EXCEPT !.selected_option = (@ + 1) % Len(menu.options)]

Menu_get_selected(menu) == menu.options[menu.selected_option + 1]

GameMode == {"PvE", "LocalPvP"}

\* GamePlayTTT::new: PvE comes with an agent playing O.
GamePlayTTT_new(mode) ==
    [board |-> Board_new, active_player |-> "X", turn |-> 0, mode |-> mode,
     selected |-> [row |-> 0, col |-> 0],
     ai |-> IF mode = "PvE" THEN Some(SimpleAi_new("O")) ELSE None]

GamePlayTTT_input_left(g) ==
    [g EXCEPT !.selected = move_selection_left_playable(Board_playable(g.board), @)]

GamePlayTTT_input_right(g) ==
    [g EXCEPT !.selected = move_selection_right_playable(Board_playable(g.board), @)]

GamePlayTTT_input_up(g) ==
    [g EXCEPT !.selected = move_selection_up_playable(Board_playable(g.board), @)]

GamePlayTTT_input_down(g) ==
    [g EXCEPT !.selected = move_selection_down_playable(Board_playable(g.board), @)]

\* GamePlayTTT::ai_play: the games it can leave, one per move the agent can
\* choose, or the panic that ends it.
GamePlayTTT_ai_play(g) ==
    IF g.ai = None THEN {[game |-> g, panic |-> Some(MsgNoAi)]}
    ELSE LET ai == g.ai[1]
             chosen == SimpleAi_choose_move(ai, g.board)
         IN  IF chosen.panic # None THEN {[game |-> g, panic |-> chosen.panic]}
             ELSE {LET r == Board_make_move(g.board, mv[1], mv[2], ai.ai_mark)
                   IN  IF r.panic # None THEN [game |-> g, panic |-> r.panic]
                       ELSE [game |-> [g EXCEPT
                                 !.board = r.board,
                                 !.active_player = IF ai.ai_mark = "X" THEN "O" ELSE "X",
                                 !.turn = @ + 1,
                                 !.selected = reset_position(Board_playable(r.board))],
                             panic |-> None]
                   : mv \in chosen.moves}

\* GamePlayTTT::player_move: the games it can leave, or the panic of the
\* make_move or ai_play call that ends it.
GamePlayTTT_player_move(g) ==
    IF g.board.state # Playing THEN {[game |-> g, panic |-> None]}
    ELSE LET r == Board_make_move(g.board, g.selected.row, g.selected.col,
                                  g.active_player)
             moved == [g EXCEPT !.board = r.board, !.turn = @ + 1]
             switched == [moved EXCEPT
                              !.active_player = IF @ = "X" THEN "O" ELSE "X"]
         IN  IF r.panic # None THEN {[game |-> g, panic |-> r.panic]}
             ELSE IF r.board.state # Playing THEN {[game |-> moved, panic |-> None]}
             ELSE IF g.mode = "PvE"
             THEN {IF a.panic # None THEN a
                   ELSE [game |-> [a.game EXCEPT
                                      !.selected = reset_position(Board_playable(a.game.board))],
                         panic |-> None]
                   : a \in GamePlayTTT_ai_play(switched)}
             ELSE {[game |-> [switched EXCEPT
                                 !.selected = reset_position(Board_playable(switched.board))],
                    panic |-> None]}

\* GamePlayTTT::play_second: the agent moves when no move was made yet.
GamePlayTTT_play_second(g) ==
    IF g.board.state = Playing /\ g.turn = 0 THEN GamePlayTTT_ai_play(g)
    ELSE {[game |-> g, panic |-> None]}

\* GamePlayTTT::reset_game: a new board, X to move, turn 0 and the cursor at
\* (0, 0); mode and ai stay.
GamePlayTTT_reset_game(g) ==
    [g EXCEPT !.board = Board_new, !.active_player = "X", !.turn = 0,
              !.selected = [row |-> 0, col |-> 0]]


----------------------------------------------------------------------------
(* src/scenes.rs: GamePlayUTT *)

\* The sub-boards of bb that <BigBoard as Board>::is_playable accepts.
BigBoard_playable(bb) ==
    {p \in Idx \X Idx : BigBoard_is_playable(bb, p[1], p[2])}

GamePlayUTT_new(mode) ==
    [big_board |-> BigBoard_new, active_player |-> "X", turn |-> 0, mode |-> mode,
     selected_board |-> [row |-> 0, col |-> 0], selected_cell |-> None]

\* input_move applied to a cursor that does not look for a playable cell.
GamePlayUTT_input_move_any_cell(g, dir) ==
    IF g.selected_cell # None
    THEN [g EXCEPT !.selected_cell = Some(move_selection(g.selected_cell[1], dir))]
    ELSE [g EXCEPT !.selected_board = move_selection(g.selected_board, dir)]

\* GamePlayUTT::input_move as input_left, input_right, input_up and
\* input_down call it: the move_selection_*_playable of direction dir on
\* the selected cell within the selected sub-board when a cell is selected,
\* else on the selected sub-board within the big board.
GamePlayUTT_input_move(g, dir) ==
    IF g.selected_cell # None
    THEN LET selected_board == get_board(g.big_board, g.selected_board.row,
                                         g.selected_board.col)
         IN  [g EXCEPT !.selected_cell =
                 Some(move_selection_playable(Board_playable(selected_board),
                                              g.selected_cell[1], dir, 3))]
    ELSE [g EXCEPT !.selected_board =
             move_selection_playable(BigBoard_playable(g.big_board),
                                     g.selected_board, dir, 3)]

\* GamePlayUTT::player_move: the game it leaves and the panic of the unwrap
\* or of the make_move call that ends it.
GamePlayUTT_player_move(g) ==
    IF g.big_board.state # Playing THEN [game |-> g, panic |-> None]
    ELSE IF g.selected_cell = None THEN [game |-> g, panic |-> Some(MsgUnwrapNone)]
    ELSE LET r == BigBoard_make_move(g.big_board, g.selected_board.row,
                                     g.selected_board.col, g.selected_cell[1].row,
                                     g.selected_cell[1].col, g.active_player)
             moved == [g EXCEPT !.big_board = r.board, !.turn = @ + 1]
             switched == [moved EXCEPT
                              !.active_player = IF @ = "X" THEN "O" ELSE "X"]
             active == r.board.active_board
         IN  IF r.panic # None THEN [game |-> g, panic |-> r.panic]
             ELSE IF r.board.state # Playing THEN [game |-> moved, panic |-> None]
             ELSE IF active # None
             THEN [game |-> [switched EXCEPT
                       !.selected_board = [row |-> active[1][1], col |-> active[1][2]],
                       !.selected_cell = Some(reset_position(Board_playable(
                           get_board(r.board, active[1][1], active[1][2]))))],
                   panic |-> None]
             ELSE [game |-> [switched EXCEPT
                       !.selected_board = reset_position(BigBoard_playable(r.board)),
                       !.selected_cell = None],
                   panic |-> None]

\* GamePlayUTT::input_enter: selects the first playable cell of the selected
\* sub-board when no cell is selected, else plays the move.
GamePlayUTT_input_enter(g) ==
    IF g.selected_cell = None
    THEN [game |-> [g EXCEPT !.selected_cell =
                       Some(reset_position(Board_playable(
                           get_board(g.big_board, g.selected_board.row,
                                     g.selected_board.col))))],
          panic |-> None]
    ELSE GamePlayUTT_player_move(g)

\* GamePlayUTT::input_esc: deselects the cell when no sub-board is active.
GamePlayUTT_input_esc(g) ==
    IF g.big_board.active_board = None THEN [g EXCEPT !.selected_cell = None] ELSE g

\* GamePlayUTT::reset_game
GamePlayUTT_reset_game(g) ==
    [g EXCEPT !.big_board = BigBoard_new, !.active_player = "X", !.turn = 0,
              !.selected_board = [row |-> 0, col |-> 0], !.selected_cell = None]

----------------------------------------------------------------------------
(* src/app.rs: the App.  A scene is a tagged tuple: <<"MainMenu", menu>>,   *)
(* <<"TTTMenu", menu>>, <<"UTTMenu", menu>>, <<"AIMenu", menu, status>>,    *)
(* <<"PlayingTTT", game>> or <<"PlayingUTT", game>>.  GameMode::PvE(..) of  *)
(* app.rs is the PvE of scenes.rs, whatever the difficulty.                 *)

\* The options of the AI menu: the two that handle_enter accepts.
AI_MENU_OPTIONS == <<"Weak", "Medium">>

\* AIMenuStatus: the menu a difficulty is chosen for.
AIMenuStatus == {"TTTpve", "UTTpve"}

App_new == [current_scene |-> <<"MainMenu", Menu_new(MAIN_MENU_OPTIONS)>>,
            should_quit |-> FALSE]

\* start_ttt_game, start_utt_game and the go_to_*_menu: the App showing
\* scene.
GoTo(a, scene) == [app |-> [a EXCEPT !.current_scene = scene], panic |-> None]

\* The App as it is, ended by the panic msg.
AppPanic(a, msg) == [app |-> a, panic |-> Some(msg)]

\* App::handle_enter: the Apps it can leave, or the panic that ends it.
App_handle_enter(a) ==
    LET scene == a.current_scene
        kind == scene[1]
        selected == Menu_get_selected(scene[2])
    IN  CASE kind = "MainMenu" ->
               (CASE selected = "Ultimate Tic Tac Toe" ->
                       {GoTo(a, <<"UTTMenu", Menu_new(UTT_MENU_OPTIONS)>>)}
                  [] selected = "Tic Tac Toe" ->
                       {GoTo(a, <<"TTTMenu", Menu_new(TTT_MENU_OPTIONS)>>)}
                  [] selected = "Quit" ->
                       {[app |-> [a EXCEPT !.should_quit = TRUE], panic |-> None]}
                  [] OTHER ->
                       {AppPanic(a, "Option selected in Tic Tac Toe Menu does not exist.")})
          [] kind = "TTTMenu" ->
               (CASE selected = "Local PvP" ->
                       {GoTo(a, <<"PlayingTTT", GamePlayTTT_new("LocalPvP")>>)}
                  [] selected = "Play vs AI" ->
                       {GoTo(a, <<"AIMenu", Menu_new(AI_MENU_OPTIONS), "TTTpve">>)}
                  [] selected = "Back" ->
                       {GoTo(a, <<"MainMenu", Menu_new(MAIN_MENU_OPTIONS)>>)}
                  [] OTHER ->
                       {AppPanic(a, "Option selected in Tic Tac Toe Menu does not exist.")})
          [] kind = "UTTMenu" ->
               (CASE selected = "Local PvP" ->
                       {GoTo(a, <<"PlayingUTT", GamePlayUTT_new("LocalPvP")>>)}
                  [] selected = "Play vs AI" ->
                       {GoTo(a, <<"AIMenu", Menu_new(AI_MENU_OPTIONS), "UTTpve">>)}
                  [] selected = "Back" ->
                       {GoTo(a, <<"MainMenu", Menu_new(MAIN_MENU_OPTIONS)>>)}
                  [] OTHER ->
                       {AppPanic(a, "Option selected in Ultimate Tic Tac Toe Menu does not exist.")})
          [] kind = "AIMenu" ->
               (CASE selected = "Weak" /\ scene[3] = "TTTpve" ->
                       {GoTo(a, <<"PlayingTTT", GamePlayTTT_new("PvE")>>)}
                  [] selected = "Weak" /\ scene[3] = "UTTpve" ->
                       {GoTo(a, <<"PlayingUTT", GamePlayUTT_new("PvE")>>)}
                  [] selected = "Medium" /\ scene[3] = "TTTpve" ->
                       {GoTo(a, <<"PlayingTTT", GamePlayTTT_new("PvE")>>)}
                  [] selected = "Medium" /\ scene[3] = "UTTpve" ->
                       {GoTo(a, <<"PlayingTTT", GamePlayTTT_new("PvE")>>)}
                  [] OTHER ->
                       {AppPanic(a, "Option selected in AI Menu does not exist.")})
          [] kind = "PlayingTTT" ->
               {[app |-> [a EXCEPT !.current_scene = <<"PlayingTTT", r.game>>],
                 panic |-> r.panic] : r \in GamePlayTTT_player_move(scene[2])}
          [] kind = "PlayingUTT" ->
               LET r == GamePlayUTT_input_enter(scene[2])
               IN  {[app |-> [a EXCEPT !.current_scene = <<"PlayingUTT", r.game>>],
                     panic |-> r.panic]}

\* App::handle_esc
App_handle_esc(a) ==
    LET scene == a.current_scene
        kind == scene[1]
    IN  CASE kind = "MainMenu" -> [a EXCEPT !.should_quit = TRUE]
          [] kind \in {"TTTMenu", "UTTMenu"} ->
               [a EXCEPT !.current_scene = <<"MainMenu", Menu_new(MAIN_MENU_OPTIONS)>>]
          [] kind = "AIMenu" ->
               [a EXCEPT !.current_scene =
                   IF scene[3] = "TTTpve" THEN <<"TTTMenu", Menu_new(TTT_MENU_OPTIONS)>>
                   ELSE <<"UTTMenu", Menu_new(UTT_MENU_OPTIONS)>>]
          [] kind = "PlayingUTT" ->
               [a EXCEPT !.current_scene = <<"PlayingUTT", GamePlayUTT_input_esc(scene[2])>>]
          [] kind = "PlayingTTT" -> a

----------------------------------------------------------------------------
(* The boards under a caller that issues make_move calls *)

VARIABLES
    subject,    \* which object the caller drives: "SmallBoard", "BigBoard",
                \* "MCTSAi", "Menu", "GamePlayTTT", "GamePlayUTT" or "App"
    board,      \* a standalone 3x3 board
    big_board,  \* an Ultimate board
    followed,   \* how many moves of the recorded game the caller has followed
    moves,      \* successful BigBoard::make_move calls off the recorded game
    last_move,  \* the arguments of the last make_move of the caller that returned
    panic,      \* the message of the panic that ended the program
    nodes,      \* MCTSAi.nodes, the arena
    root_id,    \* MCTSAi.root_id
    ai_mark,    \* MCTSAi.ai_mark
    phase,      \* "rounds" while a choose_move call runs, "idle" between calls
    rounds_done, \* rounds of the running choose_move that are finished
    arg_board,  \* the board passed to the last choose_move that located it
    best_move,  \* the move the last choose_move returned
    menu,       \* a Menu
    menu_prev,  \* the Menu as it was before the last call on it
    game,       \* a GamePlayTTT, or a GamePlayUTT when that is the subject
    call,       \* the name of the last call on the Menu
    app         \* the App: its current scene and its quit flag

vars == <<subject, board, big_board, followed, moves, last_move, panic,
          nodes, root_id, ai_mark, phase, rounds_done, arg_board, best_move,
          menu, menu_prev, game, call, app>>

\* The agent's part of the state.
ai_vars == <<nodes, root_id, ai_mark, phase, rounds_done, arg_board, best_move>>

\* The scenes' part of the state.
scene_vars == <<menu, menu_prev, game, call, app>>

\* A recorded game of 72 moves with alternating marks.  Sub-boards end won
\* and drawn on the way, one of them by a move into the cell that points to
\* itself, and the last move finishes the ninth sub-board and completes a
\* line of sub-boards at the same time.
RecordedGame ==
    <<<<0, 1, 2, 1, "X">>, <<2, 1, 2, 0, "O">>, <<2, 0, 0, 2, "X">>, <<0, 2, 2, 1, "O">>,
      <<2, 1, 0, 1, "X">>, <<0, 1, 0, 2, "O">>, <<0, 2, 1, 2, "X">>, <<1, 2, 0, 2, "O">>,
      <<0, 2, 0, 1, "X">>, <<0, 1, 2, 2, "O">>, <<2, 2, 0, 0, "X">>, <<0, 0, 0, 1, "O">>,
      <<0, 1, 1, 2, "X">>, <<1, 2, 1, 0, "O">>, <<1, 0, 1, 1, "X">>, <<1, 1, 2, 1, "O">>,
      <<2, 1, 1, 0, "X">>, <<1, 0, 0, 0, "O">>, <<0, 0, 2, 1, "X">>, <<2, 1, 2, 2, "O">>,
      <<2, 2, 0, 2, "X">>, <<0, 2, 0, 2, "O">>, <<0, 2, 1, 1, "X">>, <<1, 1, 2, 0, "O">>,
      <<2, 0, 1, 0, "X">>, <<1, 0, 2, 0, "O">>, <<2, 0, 2, 2, "X">>, <<2, 2, 1, 0, "O">>,
      <<1, 0, 0, 2, "X">>, <<0, 2, 2, 0, "O">>, <<2, 0, 2, 0, "X">>, <<2, 0, 2, 1, "O">>,
      <<2, 1, 1, 2, "X">>, <<1, 2, 2, 2, "O">>, <<2, 2, 2, 0, "X">>, <<2, 0, 1, 2, "O">>,
      <<1, 2, 2, 0, "X">>, <<2, 0, 1, 1, "O">>, <<1, 1, 1, 2, "X">>, <<1, 2, 2, 1, "O">>,
      <<2, 1, 2, 1, "X">>, <<2, 1, 0, 2, "O">>, <<0, 2, 2, 2, "X">>, <<2, 2, 1, 1, "O">>,
      <<1, 1, 2, 2, "X">>, <<2, 2, 2, 1, "O">>, <<2, 1, 1, 1, "X">>, <<1, 1, 0, 0, "O">>,
      <<0, 0, 2, 0, "X">>, <<2, 0, 0, 0, "O">>, <<0, 0, 1, 1, "X">>, <<1, 1, 0, 1, "O">>,
      <<0, 1, 0, 1, "X">>, <<0, 1, 0, 0, "O">>, <<0, 0, 0, 0, "X">>, <<0, 0, 1, 0, "O">>,
      <<1, 0, 1, 2, "X">>, <<1, 2, 0, 0, "O">>, <<0, 0, 0, 2, "X">>, <<0, 2, 0, 0, "O">>,
      <<1, 0, 0, 1, "X">>, <<0, 1, 2, 0, "O">>, <<2, 0, 0, 1, "X">>, <<0, 1, 1, 1, "O">>,
      <<1, 1, 1, 0, "X">>, <<1, 0, 2, 2, "O">>, <<2, 2, 1, 2, "X">>, <<1, 2, 1, 1, "O">>,
      <<1, 1, 1, 1, "X">>, <<2, 2, 0, 1, "O">>, <<1, 0, 1, 0, "X">>, <<0, 2, 1, 0, "O">>>>

\* Every argument tuple a caller can pass to BigBoard::make_move.
BigArgs == Idx \X Idx \X Idx \X Idx \X Mark

Init ==
    /\ subject \in {"SmallBoard", "BigBoard"}
    /\ board = Board_new
    /\ big_board = BigBoard_new
    /\ followed = 0
    /\ moves = 0
    /\ last_move = None
    /\ panic = None
    /\ nodes = <<>>
    /\ root_id = 0
    /\ ai_mark = "X"
    /\ phase = "idle"
    /\ rounds_done = 0
    /\ arg_board = None
    /\ best_move = None
    /\ menu = Menu_new(MAIN_MENU_OPTIONS)
    /\ menu_prev = menu
    /\ game = GamePlayTTT_new("LocalPvP")
    /\ call = "new"
    /\ app = App_new

\* board.make_move(row, col, mark) on the standalone board.
SmallMakeMove ==
    /\ subject = "SmallBoard"
    /\ panic = None
    /\ \E row \in Idx, col \in Idx, mark \in Mark :
          LET r == Board_make_move(board, row, col, mark)
          IN  /\ board' = r.board
              /\ panic' = r.panic
    /\ UNCHANGED <<subject, big_board, followed, moves, last_move>>
    /\ UNCHANGED ai_vars
    /\ UNCHANGED scene_vars

\* big_board.make_move(board_row, board_col, cell_row, cell_col, mark) with
\* any arguments.  The caller follows the recorded game while it passes the
\* game's next move; once another move of its is accepted it has left the
\* game for good.
BigMakeMove ==
    /\ subject = "BigBoard"
    /\ panic = None
    /\ \E mv \in BigArgs :
          LET r == BigBoard_make_move(big_board, mv[1], mv[2], mv[3], mv[4], mv[5])
              recorded == /\ moves = 0
                          /\ followed < Len(RecordedGame)
                          /\ mv = RecordedGame[followed + 1]
          IN  /\ (r.panic = None /\ ~recorded) => moves < MaxMoves
              /\ big_board' = r.board
              /\ panic' = r.panic
              /\ last_move' = IF r.panic = None THEN Some(mv) ELSE last_move
              /\ moves' = IF r.panic = None /\ ~recorded THEN moves + 1 ELSE moves
              /\ followed' = IF r.panic = None /\ recorded THEN followed + 1 ELSE followed
    /\ UNCHANGED <<subject, board>>
    /\ UNCHANGED ai_vars
    /\ UNCHANGED scene_vars

Next == SmallMakeMove \/ BigMakeMove

Spec == Init /\ [][Next]_vars

----------------------------------------------------------------------------
(* The MCTS agent under a caller that uses choose_move, reset and           *)
(* switch_starting_mark; choose_move goes through its three parts in order. *)

\* The board after the calls make_move(row, col, mark) of a sequence.
RECURSIVE BoardAfter(_, _)
BoardAfter(calls, i) ==
    IF i = 0 THEN Board_new
    ELSE Board_make_move(BoardAfter(calls, i - 1),
                         calls[i][1], calls[i][2], calls[i][3]).board

\* The board the agent is constructed with: three empty cells in the bottom
\* row, X to move, and a win of X, a win of O and a draw all still possible.
\*     X O X
\*     O O X
\*     . . .
StartBoard ==
    BoardAfter(<<<<0, 0, "X">>, <<0, 1, "O">>, <<0, 2, "X">>,
                 <<1, 0, "O">>, <<1, 2, "X">>, <<1, 1, "O">>>>, 6)

\* The boards the caller may pass to choose_move: the board of any node, a
\* board one move after the root's, or an empty board.
ArgBoards ==
    {nodes[i].board : i \in 1..Len(nodes)}
        \cup {Game_play(nodes[root_id + 1].board, mv, nodes[root_id + 1].active_player) :
                 mv \in {nodes[root_id + 1].possible_moves[i] :
                            i \in 1..Len(nodes[root_id + 1].possible_moves)}}
        \cup {Board_new}

InitMCTS ==
    /\ subject = "MCTSAi"
    /\ board = Board_new
    /\ big_board = BigBoard_new
    /\ followed = 0
    /\ moves = 0
    /\ last_move = None
    /\ panic = None
    /\ nodes \in MCTSAi_new(StartBoard)
    /\ root_id = 0
    /\ ai_mark \in Mark
    /\ phase = "idle"
    /\ rounds_done = 0
    /\ arg_board = None
    /\ best_move = None
    /\ menu = Menu_new(MAIN_MENU_OPTIONS)
    /\ menu_prev = menu
    /\ game = GamePlayTTT_new("LocalPvP")
    /\ call = "new"
    /\ app = App_new

\* choose_move(board), lines 53-54: find_state and reroot.
ChooseMoveLocate ==
    /\ subject = "MCTSAi"
    /\ panic = None
    /\ phase = "idle"
    /\ \E b \in ArgBoards : \E r \in find_state(nodes, root_id, b) :
          IF r.panic # None
          THEN /\ nodes' = r.nodes
               /\ panic' = r.panic
               /\ UNCHANGED <<root_id, phase, rounds_done, arg_board, best_move>>
          ELSE LET rerooted == reroot(r.nodes, root_id, r.id)
               IN  /\ nodes' = rerooted.nodes
                   /\ root_id' = rerooted.root_id
                   /\ phase' = "rounds"
                   /\ rounds_done' = 0
                   /\ arg_board' = Some(b)
                   /\ best_move' = None
                   /\ UNCHANGED panic
    /\ UNCHANGED <<subject, board, big_board, followed, moves, last_move, ai_mark>>
    /\ UNCHANGED scene_vars

\* choose_move, lines 57-61: one round of selection, simulation and
\* back-propagation.
ExplorationRound ==
    /\ subject = "MCTSAi"
    /\ panic = None
    /\ phase = "rounds"
    /\ rounds_done < N_ROUNDS
    /\ \E s \in selection(nodes, root_id) :
          IF s.selected < 0
          THEN /\ nodes' = s.nodes
               /\ panic' = Some(MsgNoReturn)
               /\ UNCHANGED rounds_done
          ELSE \E result \in simulate(s.nodes, s.selected) :
                  /\ nodes' = back_propagate(s.nodes, s.selected, result)
                  /\ rounds_done' = rounds_done + 1
                  /\ UNCHANGED panic
    /\ UNCHANGED <<subject, board, big_board, followed, moves, last_move,
                   root_id, ai_mark, phase, arg_board, best_move>>
    /\ UNCHANGED scene_vars

\* choose_move, lines 63-81: the best child's move is returned and the root
\* advanced.
ChooseMoveBest ==
    /\ subject = "MCTSAi"
    /\ panic = None
    /\ phase = "rounds"
    /\ rounds_done = N_ROUNDS
    /\ LET r == choose_move_best(nodes, root_id, ai_mark)
       IN  /\ nodes' = r.nodes
           /\ root_id' = r.root_id
           /\ panic' = r.panic
           /\ best_move' = r.move
           /\ phase' = IF r.panic = None THEN "idle" ELSE phase
    /\ UNCHANGED <<subject, board, big_board, followed, moves, last_move,
                   ai_mark, rounds_done, arg_board>>
    /\ UNCHANGED scene_vars

\* switch_starting_mark().
SwitchStartingMark ==
    /\ subject = "MCTSAi"
    /\ panic = None
    /\ phase = "idle"
    /\ LET r == switch_starting_mark(nodes)
       IN  /\ nodes' = r.nodes
           /\ panic' = r.panic
    /\ UNCHANGED <<subject, board, big_board, followed, moves, last_move,
                   root_id, ai_mark, phase, rounds_done, arg_board, best_move>>
    /\ UNCHANGED scene_vars

\* reset().
Reset ==
    /\ subject = "MCTSAi"
    /\ panic = None
    /\ phase = "idle"
    /\ \E r \in reset(nodes) :
          /\ nodes' = r.nodes
          /\ root_id' = r.root_id
    /\ UNCHANGED <<subject, board, big_board, followed, moves, last_move, panic,
                   ai_mark, phase, rounds_done, arg_board, best_move>>
    /\ UNCHANGED scene_vars

NextMCTS ==
    \/ ChooseMoveLocate
    \/ ExplorationRound
    \/ ChooseMoveBest
    \/ SwitchStartingMark
    \/ Reset

SpecMCTS == InitMCTS /\ [][NextMCTS]_vars

\* A step of the running choose_move call: a round that finishes, the final
\* scan that returns, or the panic that ends the call.  Every step of
\* ExplorationRound and of ChooseMoveBest is one, and no other action can
\* step while the call runs.
ChooseMoveStep ==
    /\ subject = "MCTSAi"
    /\ panic = None
    /\ phase = "rounds"
    /\ \/ rounds_done' = rounds_done + 1
       \/ phase' = "idle"
       \/ panic' # None

\* The call is running.
ChooseMoveRunning == subject = "MCTSAi" /\ panic = None /\ phase = "rounds"

\* A choose_move call is sequential code: once it has located the board its
\* rounds and its final scan follow without waiting for anything.  This is
\* weak fairness of ExplorationRound \/ ChooseMoveBest, written out with
\* ChooseMoveRunning for the enabling condition of the two actions.
SpecMCTSLive ==
    SpecMCTS /\ ([]<>(~ChooseMoveRunning) \/ []<><<ChooseMoveStep>>_vars)


----------------------------------------------------------------------------
(* The MCTS agent in a game: the caller keeps the authoritative board, asks *)
(* choose_move(board) when it is the agent's turn, plays the move returned  *)
(* with ai_mark, and the opponent answers with any legal move.              *)

\* The mark to move: the one recorded at node 0 before the first move, then
\* the other mark than the last one played.
ToMove ==
    IF last_move = None THEN nodes[1].active_player ELSE Mark_switch(last_move[1][3])

\* choose_move has returned a move for the board and the caller has not
\* played it yet.
MovePending == phase = "idle" /\ best_move # None /\ arg_board = Some(board)

InitMCTSGame ==
    /\ subject = "MCTSAi"
    /\ board = StartBoard
    /\ big_board = BigBoard_new
    /\ followed = 0
    /\ moves = 0
    /\ last_move = None
    /\ panic = None
    /\ nodes \in MCTSAi_new(StartBoard)
    /\ root_id = 0
    /\ ai_mark \in Mark
    /\ phase = "idle"
    /\ rounds_done = 0
    /\ arg_board = None
    /\ best_move = None
    /\ menu = Menu_new(MAIN_MENU_OPTIONS)
    /\ menu_prev = menu
    /\ game = GamePlayTTT_new("LocalPvP")
    /\ call = "new"
    /\ app = App_new

\* switch_starting_mark() before the game starts, for a game that O opens.
GameSwitchStartingMark ==
    /\ last_move = None
    /\ arg_board = None
    /\ SwitchStartingMark

\* choose_move(board) on the agent's turn, lines 53-54: find_state and reroot.
GameChooseMove ==
    /\ subject = "MCTSAi"
    /\ panic = None
    /\ phase = "idle"
    /\ board.state = Playing
    /\ ToMove = ai_mark
    /\ ~MovePending
    /\ \E r \in find_state(nodes, root_id, board) :
          IF r.panic # None
          THEN /\ nodes' = r.nodes
               /\ panic' = r.panic
               /\ UNCHANGED <<root_id, phase, rounds_done, arg_board, best_move>>
          ELSE LET rerooted == reroot(r.nodes, root_id, r.id)
               IN  /\ nodes' = rerooted.nodes
                   /\ root_id' = rerooted.root_id
                   /\ phase' = "rounds"
                   /\ rounds_done' = 0
                   /\ arg_board' = Some(board)
                   /\ best_move' = None
                   /\ UNCHANGED panic
    /\ UNCHANGED <<subject, board, big_board, followed, moves, last_move, ai_mark>>
    /\ UNCHANGED scene_vars

\* The caller plays the move choose_move returned, with ai_mark.
GamePlayReturned ==
    /\ subject = "MCTSAi"
    /\ panic = None
    /\ MovePending
    /\ LET mv == best_move[1]
           r == Board_make_move(board, mv[1], mv[2], ai_mark)
       IN  /\ board' = r.board
           /\ panic' = r.panic
           /\ last_move' = IF r.panic = None THEN Some(<<mv[1], mv[2], ai_mark>>)
                           ELSE last_move
    /\ UNCHANGED <<subject, big_board, followed, moves>>
    /\ UNCHANGED ai_vars
    /\ UNCHANGED scene_vars

\* The opponent plays any legal move on its turn.
GameOpponentMove ==
    /\ subject = "MCTSAi"
    /\ panic = None
    /\ phase = "idle"
    /\ board.state = Playing
    /\ ToMove # ai_mark
    /\ \E row \in Idx, col \in Idx :
          /\ Board_get(board, row, col) = None
          /\ board' = Board_make_move(board, row, col, ToMove).board
          /\ last_move' = Some(<<row, col, ToMove>>)
    /\ UNCHANGED <<subject, big_board, followed, moves, panic>>
    /\ UNCHANGED ai_vars
    /\ UNCHANGED scene_vars

NextMCTSGame ==
    \/ GameSwitchStartingMark
    \/ GameChooseMove
    \/ ExplorationRound
    \/ ChooseMoveBest
    \/ GamePlayReturned
    \/ GameOpponentMove

SpecMCTSGame == InitMCTSGame /\ [][NextMCTSGame]_vars


----------------------------------------------------------------------------
(* The one-ply agent in a game: any caller moves, and ai_play turns *)

\* GamePlayTTT::ai_play: the agent chooses on a copy of the board and its
\* move is made with its mark.
SimpleAiPlay ==
    /\ subject = "SmallBoard"
    /\ panic = None
    /\ \E mark \in Mark :
          LET chosen == SimpleAi_choose_move(SimpleAi_new(mark), board)
          IN  IF chosen.panic # None
              THEN board' = board /\ panic' = chosen.panic
              ELSE \E mv \in chosen.moves :
                      LET r == Board_make_move(board, mv[1], mv[2], mark)
                      IN  board' = r.board /\ panic' = r.panic
    /\ UNCHANGED <<subject, big_board, followed, moves, last_move>>
    /\ UNCHANGED ai_vars
    /\ UNCHANGED scene_vars

InitSimpleAi == Init /\ subject = "SmallBoard"

NextSimpleAi == SmallMakeMove \/ SimpleAiPlay

SpecSimpleAi == InitSimpleAi /\ [][NextSimpleAi]_vars

----------------------------------------------------------------------------
(* The scenes under a caller that drives one Menu or one GamePlayTTT: the   *)
(* methods of the object, and, as the fields are public, a write to         *)
(* game.selected.                                                           *)

\* The option lists a Menu is built with: the three of the program and a
\* list of one option.
MenuOptionLists == {MAIN_MENU_OPTIONS, TTT_MENU_OPTIONS, UTT_MENU_OPTIONS, <<"Quit">>}

InitScenes ==
    /\ subject \in {"Menu", "GamePlayTTT"}
    /\ board = Board_new
    /\ big_board = BigBoard_new
    /\ followed = 0
    /\ moves = 0
    /\ last_move = None
    /\ panic = None
    /\ nodes = <<>>
    /\ root_id = 0
    /\ ai_mark = "X"
    /\ phase = "idle"
    /\ rounds_done = 0
    /\ arg_board = None
    /\ best_move = None
    /\ menu \in {Menu_new(options) : options \in
                    IF subject = "Menu" THEN MenuOptionLists ELSE {MAIN_MENU_OPTIONS}}
    /\ menu_prev = menu
    /\ game \in {GamePlayTTT_new(mode) : mode \in
                    IF subject = "GamePlayTTT" THEN GameMode ELSE {"LocalPvP"}}
    /\ call = "new"
    /\ app = App_new

\* The variables no call on a scene object touches.
board_vars == <<subject, board, big_board, followed, moves, last_move, app>>

\* menu.move_up().
MenuMoveUp ==
    /\ subject = "Menu"
    /\ panic = None
    /\ menu' = Menu_move_up(menu)
    /\ menu_prev' = menu
    /\ call' = "move_up"
    /\ UNCHANGED <<board_vars, ai_vars, panic, game>>

\* menu.move_down().
MenuMoveDown ==
    /\ subject = "Menu"
    /\ panic = None
    /\ menu' = Menu_move_down(menu)
    /\ menu_prev' = menu
    /\ call' = "move_down"
    /\ UNCHANGED <<board_vars, ai_vars, panic, game>>

\* game.input_left().
InputLeft ==
    /\ subject = "GamePlayTTT"
    /\ panic = None
    /\ game' = GamePlayTTT_input_left(game)
    /\ UNCHANGED <<board_vars, ai_vars, panic, menu, menu_prev, call>>

\* game.input_right().
InputRight ==
    /\ subject = "GamePlayTTT"
    /\ panic = None
    /\ game' = GamePlayTTT_input_right(game)
    /\ UNCHANGED <<board_vars, ai_vars, panic, menu, menu_prev, call>>

\* game.input_up().
InputUp ==
    /\ subject = "GamePlayTTT"
    /\ panic = None
    /\ game' = GamePlayTTT_input_up(game)
    /\ UNCHANGED <<board_vars, ai_vars, panic, menu, menu_prev, call>>

\* game.input_down().
InputDown ==
    /\ subject = "GamePlayTTT"
    /\ panic = None
    /\ game' = GamePlayTTT_input_down(game)
    /\ UNCHANGED <<board_vars, ai_vars, panic, menu, menu_prev, call>>

\* game.selected.row = row; game.selected.col = col, as the tests of
\* scenes.rs write it.
SetSelected ==
    /\ subject = "GamePlayTTT"
    /\ panic = None
    /\ \E row \in Idx, col \in Idx :
          game' = [game EXCEPT !.selected = [row |-> row, col |-> col]]
    /\ UNCHANGED <<board_vars, ai_vars, panic, menu, menu_prev, call>>

\* game.player_move().
PlayerMove ==
    /\ subject = "GamePlayTTT"
    /\ panic = None
    /\ \E r \in GamePlayTTT_player_move(game) :
          /\ game' = r.game
          /\ panic' = r.panic
    /\ UNCHANGED <<board_vars, ai_vars, menu, menu_prev, call>>

\* game.play_second().
PlaySecond ==
    /\ subject = "GamePlayTTT"
    /\ panic = None
    /\ \E r \in GamePlayTTT_play_second(game) :
          /\ game' = r.game
          /\ panic' = r.panic
    /\ UNCHANGED <<board_vars, ai_vars, menu, menu_prev, call>>

\* game.reset_game().
ResetGame ==
    /\ subject = "GamePlayTTT"
    /\ panic = None
    /\ game' = GamePlayTTT_reset_game(game)
    /\ UNCHANGED <<board_vars, ai_vars, panic, menu, menu_prev, call>>

NextScenes ==
    \/ MenuMoveUp
    \/ MenuMoveDown
    \/ InputLeft
    \/ InputRight
    \/ InputUp
    \/ InputDown
    \/ SetSelected
    \/ PlayerMove
    \/ PlaySecond
    \/ ResetGame

SpecScenes == InitScenes /\ [][NextScenes]_vars

----------------------------------------------------------------------------
(* Properties of the boards *)

\* The eight lines of a 3x3 grid: three rows, three columns, two diagonals.
Lines ==
    {{<<i, 0>>, <<i, 1>>, <<i, 2>>} : i \in Idx} \cup
    {{<<0, i>>, <<1, i>>, <<2, i>>} : i \in Idx} \cup
    {{<<0, 0>>, <<1, 1>>, <<2, 2>>}, {<<0, 2>>, <<1, 1>>, <<2, 0>>}}

\* Some line of board b holds three marks m.
HasLine(b, m) == \E l \in Lines : \A p \in l : Board_get(b, p[1], p[2]) = Some(m)

IsFull(b) == \A i \in CellIdx : b.cells[i] # None

SubState(bb, p) == get_board(bb, p[1], p[2]).state

\* Some line of sub-boards of bb is won three times by m.
HasMetaLine(bb, m) == \E l \in Lines : \A p \in l : SubState(bb, p) = Won(m)

AllSubBoardsOver(bb) == \A p \in Idx \X Idx : SubState(bb, p) # Playing

\* The last BigBoard::make_move that returned: its sub-board, cell and mark.
BigReturned == last_move # None
LastBoard == <<last_move[1][1], last_move[1][2]>>
LastCell == <<last_move[1][3], last_move[1][4]>>
LastMark == last_move[1][5]

\* C1: a board state that is Won or Draw never changes again; this holds for
\* the standalone board, for the meta state of the Ultimate board and for
\* each of its nine sub-boards, so the only changes are Playing -> Won and
\* Playing -> Draw.
C1_StateOneWay ==
    [][/\ board.state # Playing => board'.state = board.state
       /\ big_board.state # Playing => big_board'.state = big_board.state
       /\ \A i \in CellIdx :
             big_board.boards[i].state # Playing
                => big_board'.boards[i].state = big_board.boards[i].state]_vars

\* A move was tried on a finished sub-board of an Ultimate board in play.
C1_Witness ==
    /\ subject = "BigBoard"
    /\ panic = Some(MsgCompleted)
    /\ big_board.state = Playing

\* C2: a make_move on the standalone board that fills the last empty cell
\* and completes a line through that cell leaves the state Won(mark of the
\* line), not Draw.
C2_WinBeatsDraw ==
    [][\A p \in Idx \X Idx, mark \in Mark :
          (/\ Board_get(board, p[1], p[2]) = None
           /\ Board_get(board', p[1], p[2]) = Some(mark)
           /\ IsFull(board')
           /\ \E l \in Lines :
                 p \in l /\ \A q \in l : Board_get(board', q[1], q[2]) = Some(mark))
          => board'.state = Won(mark)]_vars

\* A full board that is Won: the move that filled it completed the line, as
\* the board was Playing, hence without a line, before it.
C2_Witness ==
    /\ subject = "SmallBoard"
    /\ IsFull(board)
    /\ \E mark \in Mark : HasLine(board, mark) /\ board.state = Won(mark)

\* C3: the stored state of the standalone board agrees with its cells: Won(m)
\* exactly when a line holds three m, Draw exactly when the board is full
\* without a line, Playing exactly when there is no line and an empty cell.
C3_StateAgreesWithCells ==
    LET anyLine == \E m \in Mark : HasLine(board, m)
    IN  /\ \A m \in Mark : board.state = Won(m) <=> HasLine(board, m)
        /\ board.state = Draw <=> (IsFull(board) /\ ~anyLine)
        /\ board.state = Playing <=> (~IsFull(board) /\ ~anyLine)

\* The canonical draw pattern X,O,X / X,O,O / O,X,X has been played.
C3_Witness ==
    /\ subject = "SmallBoard"
    /\ board.cells = [i \in CellIdx |->
                        Some(<<"X", "O", "X", "X", "O", "O", "O", "X", "X">>[i + 1])]
    /\ board.state = Draw

\* C4: on every board the caller can hold, make_move(row, col, mark) panics
\* exactly when the state is not Playing or the cell is occupied, and then
\* changes nothing; otherwise it returns with the mark placed in that cell
\* and no other cell touched.
C4_SmallPanicsExactly ==
    (subject = "SmallBoard" /\ panic = None) =>
        \A row \in Idx, col \in Idx, mark \in Mark :
            LET r == Board_make_move(board, row, col, mark)
            IN  /\ r.panic # None
                      <=> (board.state # Playing \/ Board_get(board, row, col) # None)
                /\ r.panic = None
                      => r.board.cells = [board.cells EXCEPT ![row * 3 + col] = Some(mark)]

\* A call on an occupied cell of a board in play has panicked.
C4_Witness ==
    /\ subject = "SmallBoard"
    /\ panic = Some(MsgOccupied)
    /\ board.state = Playing

\* The moves make_move accepts on a board, as sets.
AcceptedSmall(b) ==
    {p \in Idx \X Idx : \E mark \in Mark : Board_make_move(b, p[1], p[2], mark).panic = None}

AcceptedBig(bb) ==
    {q \in Idx \X Idx \X Idx \X Idx :
        \E mark \in Mark : BigBoard_make_move(bb, q[1], q[2], q[3], q[4], mark).panic = None}

SeqToSet(seq) == {seq[i] : i \in DOMAIN seq}

\* C5: the legal moves of a board are the moves make_move accepts, and there
\* is none exactly when the board's state is not Playing; an Ultimate board
\* in state Playing always has a move that make_move accepts.
C5_LegalMovesEmptyIffOver ==
    panic = None =>
        IF subject = "SmallBoard"
        THEN LET accepted == AcceptedSmall(board)
             IN  /\ SeqToSet(Board_get_possible_moves(board)) = accepted
                 /\ accepted = {} <=> board.state # Playing
        ELSE LET accepted == AcceptedBig(big_board)
             IN  /\ SeqToSet(BigBoard_get_possible_moves(big_board)) = accepted
                 /\ accepted = {} <=> big_board.state # Playing

\* An Ultimate board in play, after a move, with finished sub-boards and no
\* active sub-board.
C5_Witness ==
    /\ BigReturned
    /\ big_board.state = Playing
    /\ big_board.active_board = None
    /\ \E p \in Idx \X Idx : SubState(big_board, p) # Playing
    /\ AcceptedBig(big_board) # {}

\* C6: after a successful BigBoard::make_move, active_board is
\* Some((cell_row, cell_col)) when the sub-board at that position is Playing
\* and None when it is Won or Draw.
C6_ActiveBoardFollowsCell ==
    BigReturned =>
        big_board.active_board =
            IF SubState(big_board, LastCell) = Playing THEN Some(LastCell) ELSE None

\* The move went into the sub-board its own cell points to and finished it.
C6_Witness ==
    /\ BigReturned
    /\ LastBoard = LastCell
    /\ SubState(big_board, LastCell) = Won(LastMark)
    /\ big_board.active_board = None
    /\ big_board.state = Playing

\* C7: the active sub-board is never a finished one.
C7_ActiveBoardIsPlaying ==
    big_board.active_board # None
        => SubState(big_board, big_board.active_board[1]) = Playing

\* A move into a cell whose sub-board is in play, with finished sub-boards
\* elsewhere.
C7_Witness ==
    /\ BigReturned
    /\ big_board.active_board = Some(LastCell)
    /\ \E p \in Idx \X Idx : SubState(big_board, p) # Playing

\* C8: on every Ultimate board the caller can hold, make_move panics exactly
\* when the meta state is not Playing, or an active sub-board is set and is
\* not the targeted one, or the targeted sub-board is not Playing, or the
\* targeted cell is occupied; otherwise the mark is placed.
C8_BigPanicsExactly ==
    (subject = "BigBoard" /\ panic = None) =>
        \A q \in Idx \X Idx \X Idx \X Idx, mark \in Mark :
            LET r == BigBoard_make_move(big_board, q[1], q[2], q[3], q[4], mark)
                target == get_board(big_board, q[1], q[2])
                rejects == \/ big_board.state # Playing
                           \/ /\ big_board.active_board # None
                              /\ big_board.active_board # Some(<<q[1], q[2]>>)
                           \/ target.state # Playing
                           \/ Board_get(target, q[3], q[4]) # None
            IN  IF rejects
                THEN r.panic # None
                ELSE /\ r.panic = None
                     /\ Board_get(get_board(r.board, q[1], q[2]), q[3], q[4]) = Some(mark)

\* A call on a sub-board other than the active one has panicked.
C8_Witness ==
    /\ subject = "BigBoard"
    /\ panic = Some(MsgWrongBoard)
    /\ big_board.active_board # None

\* C9: the meta state is Won(m) only when three sub-boards in a line are
\* each Won(m), and a drawn sub-board is an empty cell of the meta win check.
C9_MetaWinOnlyFromWonBoards ==
    /\ \A m \in Mark : big_board.state = Won(m) => HasMetaLine(big_board, m)
    /\ \A p \in Idx \X Idx :
          SubState(big_board, p) = Draw => BigBoard_get(big_board, p[1], p[2]) = None

\* A line of sub-boards, all over, holds a drawn one next to boards won by m
\* and the meta state is not Won(m).
C9_Witness ==
    /\ BigReturned
    /\ \E m \in Mark, l \in Lines :
          /\ \A p \in l : SubState(big_board, p) \in {Draw, Won(m)}
          /\ \E p \in l : SubState(big_board, p) = Draw
          /\ \E p \in l : SubState(big_board, p) = Won(m)
          /\ big_board.state # Won(m)

\* C10: after a successful BigBoard::make_move the meta state is Won(m) when
\* a line of sub-boards is Won(m), else Draw when all nine sub-boards are
\* over, else Playing.
C10_MetaStateDerived ==
    BigReturned =>
        LET anyLine == \E m \in Mark : HasMetaLine(big_board, m)
        IN  /\ \A m \in Mark : HasMetaLine(big_board, m) => big_board.state = Won(m)
            /\ (~anyLine /\ AllSubBoardsOver(big_board)) => big_board.state = Draw
            /\ (~anyLine /\ ~AllSubBoardsOver(big_board)) => big_board.state = Playing

\* The move that finished the ninth sub-board completed a meta line: the
\* meta state is Won with no sub-board left in play.
C10_Witness ==
    /\ BigReturned
    /\ AllSubBoardsOver(big_board)
    /\ big_board.state = Won(LastMark)
    /\ HasMetaLine(big_board, LastMark)

----------------------------------------------------------------------------
(* Properties of the MCTS agent *)

\* The agent is in use: constructed and not ended by a panic.
AgentAlive == subject = "MCTSAi" /\ panic = None

NodeIds == 0..(Len(nodes) - 1)

\* C11: after reset(), whatever preceded it, the arena holds exactly one
\* node, root_id is 0, and that node has zero plays, zero wins, no parent and
\* an absent children field.
C11_ResetYieldsSingleNode ==
    AgentAlive =>
        \A r \in reset(nodes) :
            /\ Len(r.nodes) = 1
            /\ r.root_id = 0
            /\ r.nodes[1].plays = 0
            /\ r.nodes[1].wins2 = 0
            /\ r.nodes[1].parent = None
            /\ r.nodes[1].children = None

\* reset() has run on a tree that a completed choose_move had grown and
\* explored: the arena is back to one node.
C11_Witness ==
    /\ AgentAlive
    /\ phase = "idle"
    /\ best_move # None
    /\ Len(nodes) = 1
    /\ root_id = 0
    /\ nodes[1].plays = 0

\* C12: switch_starting_mark() succeeds exactly when the arena holds exactly
\* one node, and then flips the active player of that node and changes
\* nothing else; on a larger arena it panics.
C12_SwitchExactlyOnSingleNode ==
    AgentAlive =>
        LET r == switch_starting_mark(nodes)
        IN  IF Len(nodes) = 1
            THEN /\ r.panic = None
                 /\ r.nodes = <<[nodes[1] EXCEPT
                                   !.active_player = IF @ = "X" THEN "O" ELSE "X"]>>
            ELSE /\ r.panic = Some(MsgSwitch)
                 /\ r.nodes = nodes

\* switch_starting_mark() has been refused on an expanded arena.
C12_Witness ==
    /\ subject = "MCTSAi"
    /\ panic = Some(MsgSwitch)
    /\ Len(nodes) > 1

\* The nodes reached from the nodes of S by at most k parent links.
RECURSIVE UpChain(_, _)
UpChain(S, k) ==
    IF k = 0 THEN S
    ELSE UpChain(S \cup {nodes[n + 1].parent[1] : n \in {m \in S : nodes[m + 1].parent # None}},
                 k - 1)

\* The parent chain that starts at node from.
ParentChain(from) == UpChain({from}, Len(nodes))

\* The half points a playout result is worth to a node.
HalfPoints(node, result) ==
    IF result = Draw THEN 1
    ELSE IF result = Won(node.active_player) THEN 2
    ELSE 0

\* C13: one back_propagate(from, result) adds exactly one play to every node
\* of the parent chain that starts at from, and to each of them a win when
\* the result is Won by its active player, half a win for a Draw and nothing
\* when the other mark won; no other node changes.
C13_BackPropagateCredits ==
    AgentAlive =>
        \A from \in NodeIds, result \in {Draw, Won("X"), Won("O")} :
            LET after == back_propagate(nodes, from, result)
                chain == ParentChain(from)
            IN  /\ Len(after) = Len(nodes)
                /\ \A n \in NodeIds :
                      IF n \in chain
                      THEN after[n + 1] =
                              [nodes[n + 1] EXCEPT
                                  !.plays = @ + 1,
                                  !.wins2 = @ + HalfPoints(nodes[n + 1], result)]
                      ELSE after[n + 1] = nodes[n + 1]

\* A round has back-propagated a won playout along a chain of two nodes with
\* different active players: the child is credited and its parent is not.
C13_Witness ==
    /\ AgentAlive
    /\ phase = "rounds"
    /\ \E n \in NodeIds :
          /\ nodes[n + 1].parent # None
          /\ nodes[n + 1].plays = 1
          /\ nodes[n + 1].wins2 = 2
          /\ nodes[nodes[n + 1].parent[1] + 1].plays >= 1
          /\ nodes[nodes[n + 1].parent[1] + 1].wins2 = 0

\* C14: a choose_move(board) that located a non-terminal board ends without
\* a panic, returns a move that is legal on board, and leaves as root the
\* node whose board is board with that move made by the player to move.
C14_ChooseMoveAdvancesRoot ==
    [][(AgentAlive /\ phase = "rounds" /\ arg_board[1].state = Playing) =>
          /\ panic' = None
          /\ phase' = "idle" =>
                /\ best_move' # None
                /\ LET mv == best_move'[1]
                       made == Board_make_move(arg_board[1], mv[1], mv[2],
                                               nodes[root_id + 1].active_player)
                   IN  /\ made.panic = None
                       /\ nodes'[root_id' + 1].board = made.board]_vars

\* choose_move has returned a move on the starting board and the root is the
\* node one move later.
C14_Witness ==
    /\ AgentAlive
    /\ phase = "idle"
    /\ best_move # None
    /\ arg_board = Some(StartBoard)
    /\ root_id # 0
    /\ nodes[root_id + 1].board # StartBoard

\* The boards of the direct children of the root, expanded or not.
ChildBoards ==
    LET root == nodes[root_id + 1]
    IN  {Board_make_move(root.board, p[1], p[2], root.active_player).board :
            p \in {q \in Idx \X Idx : /\ root.board.state = Playing
                                      /\ Board_get(root.board, q[1], q[2]) = None}}

\* C15: find_state(board) returns a node whose board equals board, the root
\* or one of its direct children; it panics exactly when neither the root
\* nor a direct child has that board.
C15_FindStateLocatesOrPanics ==
    (AgentAlive /\ phase = "idle") =>
        \A b \in ArgBoards : \A r \in find_state(nodes, root_id, b) :
            IF b = nodes[root_id + 1].board \/ b \in ChildBoards
            THEN /\ r.panic = None
                 /\ r.nodes[r.id + 1].board = b
                 /\ \/ r.id = root_id
                    \/ /\ r.nodes[root_id + 1].children # None
                       /\ r.id \in SeqToSet(r.nodes[root_id + 1].children[1])
            ELSE r.panic = Some(MsgNotFound)

\* choose_move has located the board among the children of a root that
\* find_state had to expand for it.
C15_Witness ==
    /\ AgentAlive
    /\ phase = "rounds"
    /\ rounds_done = 0
    /\ root_id # 0
    /\ nodes[root_id + 1].board = arg_board[1]
    /\ \A n \in NodeIds : nodes[n + 1].plays = 0

\* C16: a choose_move on a terminal board that the tree located runs its
\* rounds without a panic and then ends in the panic 'No available moves
\* found by MCTSAi', returning no move.
C16_TerminalBoardPanics ==
    [][(AgentAlive /\ phase = "rounds" /\ arg_board[1].state # Playing) =>
          IF rounds_done < N_ROUNDS
          THEN panic' = None /\ phase' = "rounds"
          ELSE panic' = Some(MsgNoMoves) /\ best_move' = None]_vars

\* choose_move on a terminal board equal to the root's has panicked.
C16_Witness ==
    /\ subject = "MCTSAi"
    /\ panic = Some(MsgNoMoves)
    /\ arg_board[1].state # Playing
    /\ nodes[root_id + 1].board = arg_board[1]
    /\ best_move = None

\* The winning chance of a node for ai_mark, as a fraction.
WinChance(node) ==
    IF node.plays = 0 THEN <<0, 1>>
    ELSE IF node.active_player = ai_mark THEN <<node.wins2, 2 * node.plays>>
    ELSE <<2 * node.plays - node.wins2, 2 * node.plays>>

FracLess(a, b) == a[1] * b[2] < b[1] * a[2]

\* C17: when choose_move returns, the child it advances to has the highest
\* winning chance for ai_mark among the root's children and is the earliest
\* such child in child order; the move returned is the one of that child.
C17_BestChildFirstOnTies ==
    [][(AgentAlive /\ phase = "rounds" /\ phase' = "idle") =>
          LET root == nodes[root_id + 1]
              kids == root.children[1]
          IN  \E i \in 1..Len(kids) :
                 /\ \A j \in 1..Len(kids) :
                       ~FracLess(WinChance(nodes[kids[i] + 1]), WinChance(nodes[kids[j] + 1]))
                 /\ \A j \in 1..(i - 1) :
                       FracLess(WinChance(nodes[kids[j] + 1]), WinChance(nodes[kids[i] + 1]))
                 /\ root_id' = kids[i]
                 /\ best_move' = Some(root.possible_moves[i])]_vars

\* choose_move has advanced to a child that is not the first one: a later
\* child had a strictly higher winning chance.
C17_Witness ==
    /\ AgentAlive
    /\ phase = "idle"
    /\ best_move # None
    /\ nodes[root_id + 1].parent # None
    /\ nodes[nodes[root_id + 1].parent[1] + 1].children[1][1] # root_id

\* C18: while the exploration rounds of choose_move run, the root has no
\* parent link, because reroot detached the new root from its parent.
C18_RootHasNoParent ==
    (AgentAlive /\ phase = "rounds") => nodes[root_id + 1].parent = None

----------------------------------------------------------------------------
(* Properties of the one-ply agent *)

\* The empty cells of b where a mark m completes a line.
WinningCells(b, m) ==
    {p \in Idx \X Idx :
        /\ Board_get(b, p[1], p[2]) = None
        /\ HasLine(Board_set(b, p[1], p[2], Some(m)), m)}

\* The one-ply agent is asked for a move on a board in play.
SimpleAiAsked == subject = "SmallBoard" /\ panic = None /\ board.state = Playing

\* C19: whenever some legal move immediately wins for the agent's mark,
\* SimpleAi::choose_move returns such a winning move.
C19_TakesWinningMove ==
    SimpleAiAsked =>
        \A mark \in Mark :
            LET chosen == SimpleAi_choose_move(SimpleAi_new(mark), board)
            IN  WinningCells(board, mark) # {} =>
                    /\ chosen.panic = None
                    /\ chosen.moves # {}
                    /\ chosen.moves \subseteq WinningCells(board, mark)

\* A board in play where a mark can win at once in two cells and the other
\* mark threatens a win too: a block is possible and a win is taken.
C19_Witness ==
    /\ SimpleAiAsked
    /\ \E mark \in Mark :
          /\ Cardinality(WinningCells(board, mark)) >= 2
          /\ WinningCells(board, IF mark = "X" THEN "O" ELSE "X") # {}

\* C20: when the agent has no immediately winning move and the opponent has
\* a cell that would win on its next turn, SimpleAi::choose_move returns a
\* cell that blocks such a win.
C20_BlocksOpponentWin ==
    SimpleAiAsked =>
        \A mark \in Mark :
            LET enemy == IF mark = "X" THEN "O" ELSE "X"
                chosen == SimpleAi_choose_move(SimpleAi_new(mark), board)
            IN  (WinningCells(board, mark) = {} /\ WinningCells(board, enemy) # {}) =>
                    /\ chosen.panic = None
                    /\ chosen.moves # {}
                    /\ chosen.moves \subseteq WinningCells(board, enemy)

----------------------------------------------------------------------------
(* Properties of the scenes *)

\* C21: every move_up and move_down of a Menu with at least one option
\* leaves selected_option a valid index of the unchanged options; move_up
\* goes from index 0 to the last index and otherwise one down, move_down
\* goes from the last index to 0 and otherwise one up, and a move_up right
\* after a move_down, or a move_down right after a move_up, brings back the
\* menu as it was before the two calls.
C21_MenuSelectionWraps ==
    [][subject = "Menu" =>
          LET n == Len(menu.options)
              s == menu.selected_option
              t == menu'.selected_option
          IN  /\ menu'.options = menu.options
              /\ t \in 0..(n - 1)
              /\ call' = "move_up" => t = (IF s = 0 THEN n - 1 ELSE s - 1)
              /\ call' = "move_down" => t = (IF s = n - 1 THEN 0 ELSE s + 1)
              /\ (call # "new" /\ call' # call) => menu' = menu_prev]_vars

\* A three-option menu that move_up has just taken from index 0 to the last
\* index, right after a move_down.
C21_Witness ==
    /\ subject = "Menu"
    /\ call = "move_up"
    /\ Len(menu.options) = 3
    /\ menu_prev.selected_option = 0
    /\ menu.selected_option = 2

\* C22: player_move changes neither board, turn nor active_player and does
\* not panic when the game is over or the selected cell is occupied; after
\* a valid move turn is one higher and, when the board is still Playing,
\* active_player is the other mark.
C22_PlayerMoveGuards ==
    [][PlayerMove =>
          IF \/ game.board.state # Playing
             \/ Board_get(game.board, game.selected.row, game.selected.col) # None
          THEN /\ game'.board = game.board
               /\ game'.turn = game.turn
               /\ game'.active_player = game.active_player
               /\ panic' = None
          ELSE /\ game'.turn = game.turn + 1
               /\ game'.board.state = Playing
                     => game'.active_player # game.active_player]_vars

----------------------------------------------------------------------------
(* Properties of the MCTS agent, continued *)

\* The nodes reached from the nodes of S by at most k child links of arena ns.
RECURSIVE DownChain(_, _, _)
DownChain(ns, S, k) ==
    IF k = 0 THEN S
    ELSE DownChain(ns,
            S \cup UNION {{ns[n + 1].children[1][j] : j \in 1..Len(ns[n + 1].children[1])} :
                             n \in {m \in S : ns[m + 1].children # None}},
            k - 1)

\* The subtree of node root in arena ns.
Subtree(ns, root) == DownChain(ns, {root}, Len(ns))

\* The nodes from node n up the parent links of arena ns to node root, both
\* included; the chain also ends at a node without parent.
RECURSIVE PathToRoot(_, _, _, _)
PathToRoot(ns, n, root, k) ==
    IF n = root \/ ns[n + 1].parent = None \/ k = 0 THEN {n}
    ELSE {n} \cup PathToRoot(ns, ns[n + 1].parent[1], root, k - 1)

\* The nodes whose plays or wins a step changes.
StatsChanged ==
    {n \in NodeIds : \/ nodes'[n + 1].plays # nodes[n + 1].plays
                     \/ nodes'[n + 1].wins2 # nodes[n + 1].wins2}

\* C23: a round of choose_move changes the plays and wins of exactly the
\* nodes on the path from one node (the selected one) up to the current
\* root, the root included, and of no node outside the root's subtree.
C23_BackPropagateStopsAtRoot ==
    [][(AgentAlive /\ phase = "rounds" /\ rounds_done' = rounds_done + 1) =>
          /\ root_id \in StatsChanged
          /\ StatsChanged \subseteq Subtree(nodes', root_id)
          /\ \E selected \in StatsChanged :
                StatsChanged = PathToRoot(nodes', selected, root_id, Len(nodes'))]_vars

\* The children list of node n in arena ns.
ChildrenOf(ns, n) == ns[n + 1].children[1]

\* The nodes a walk down from node n may stop at: n itself when it has no
\* play or is expanded without children, else the first child without a play,
\* else, all children having a play, whatever the walk may stop at from one
\* of the children.
RECURSIVE StopNodes(_, _, _)
StopNodes(ns, n, k) ==
    IF ns[n + 1].plays = 0 THEN {n}
    ELSE IF ns[n + 1].children = None THEN {}
    ELSE IF Len(ChildrenOf(ns, n)) = 0 THEN {n}
    ELSE LET kids == ChildrenOf(ns, n)
             zero == {j \in 1..Len(kids) : ns[kids[j] + 1].plays = 0}
         IN  IF zero # {}
             THEN {kids[CHOOSE j \in zero : \A i \in zero : j <= i]}
             ELSE IF k = 0 THEN {}
             ELSE UNION {StopNodes(ns, kids[j], k - 1) : j \in 1..Len(kids)}

\* C24: while the rounds run, selection() returns a node of the current
\* root's subtree that has no play or is expanded with no children; the walk
\* that leads to it goes down from a node only when all its children have a
\* play, and stops at the first child without a play when there is one.
C24_SelectionStopsAtFirstUnvisited ==
    (AgentAlive /\ phase = "rounds") =>
        \A s \in selection(nodes, root_id) :
            /\ s.selected \in Subtree(s.nodes, root_id)
            /\ \/ s.nodes[s.selected + 1].plays = 0
               \/ s.nodes[s.selected + 1].children = Some(<<>>)
            /\ s.selected \in StopNodes(s.nodes, root_id, Len(s.nodes))

\* A round has stopped at the first of several unvisited children of the
\* visited root: that child has its play and the next ones have none.
C24_Witness ==
    /\ AgentAlive
    /\ phase = "rounds"
    /\ nodes[root_id + 1].plays = 2
    /\ nodes[root_id + 1].children # None
    /\ Len(ChildrenOf(nodes, root_id)) = 3
    /\ nodes[ChildrenOf(nodes, root_id)[1] + 1].plays = 1
    /\ nodes[ChildrenOf(nodes, root_id)[2] + 1].plays = 0
    /\ nodes[ChildrenOf(nodes, root_id)[3] + 1].plays = 0

\* C25: a choose_move call that has located its board comes to its end, by
\* returning or by the panic of its final scan; no round is left unfinished
\* by a selection that does not return.
C25_ChooseMoveTerminates ==
    (AgentAlive /\ phase = "rounds")
        ~> (phase = "idle" \/ (panic # None /\ panic # Some(MsgNoReturn)))

\* A choose_move call has gone through all its rounds and returned a move.
C25_Witness ==
    /\ AgentAlive
    /\ phase = "idle"
    /\ rounds_done = N_ROUNDS
    /\ best_move # None
    /\ Len(nodes) > 1

\* The board after the first i moves of a playout are made on b with
\* make_move, and whether all of them were accepted.
RECURSIVE Replay(_, _, _)
Replay(b, played, i) ==
    IF i = 0 THEN [board |-> b, legal |-> TRUE]
    ELSE LET before == Replay(b, played, i - 1)
             r == Board_make_move(before.board, played[i][1][1], played[i][1][2],
                                  played[i][2])
         IN  [board |-> r.board, legal |-> before.legal /\ r.panic = None]

\* C26: every playout simulate can make from a node that selection returns
\* in a round plays only moves that make_move accepts, the first with the
\* node's active player and the next ones with alternating marks, never
\* finds an empty move list, and
\* returns Won or Draw, the state of the board after its moves; from a
\* terminal board it plays nothing and returns the board's state.  The
\* states simulate returns in a round are those of these playouts, and a
\* round changes no board, active player or move list of the arena.
C26_SimulatePlaysOutLegally ==
    /\ []((AgentAlive /\ phase = "rounds" /\ rounds_done < N_ROUNDS) =>
            \A s \in selection(nodes, root_id) :
               LET node == s.nodes[s.selected + 1]
                   runs == simulate_runs(node.board, node.active_player, <<>>)
               IN  /\ simulate(s.nodes, s.selected) = {run.result : run \in runs}
                   /\ \A run \in runs :
                         /\ run.panic = None
                         /\ run.result \in {Draw, Won("X"), Won("O")}
                         /\ Len(run.played) <= 9
                         /\ node.board.state # Playing =>
                               (run.played = <<>> /\ run.result = node.board.state)
                         /\ \A i \in 1..Len(run.played) :
                               run.played[i][2] =
                                  (IF i % 2 = 1 THEN node.active_player
                                   ELSE IF node.active_player = "X" THEN "O" ELSE "X")
                         /\ Replay(node.board, run.played, Len(run.played)).legal
                         /\ Replay(node.board, run.played, Len(run.played)).board.state
                               = run.result)
    /\ [][(AgentAlive /\ phase = "rounds" /\ rounds_done' = rounds_done + 1) =>
             \A n \in NodeIds :
                /\ nodes'[n + 1].board = nodes[n + 1].board
                /\ nodes'[n + 1].active_player = nodes[n + 1].active_player
                /\ nodes'[n + 1].possible_moves = nodes[n + 1].possible_moves
                /\ nodes'[n + 1].parent = nodes[n + 1].parent]_vars

\* A round has played out from the root, a board with three empty cells and
\* X to move, and the playout ended in a win of O: it had at least two
\* moves, by X and by O.
C26_Witness ==
    /\ AgentAlive
    /\ phase = "rounds"
    /\ rounds_done = 1
    /\ nodes[root_id + 1].board = StartBoard
    /\ nodes[root_id + 1].active_player = "X"
    /\ nodes[root_id + 1].plays = 1
    /\ nodes[root_id + 1].wins2 = 0

\* The potential of child c of node p, in units of 1 / (2000000 * (plays of
\* p - 1)): (plays - wins) / (plays of p - 1) for the exploitation term and
\* sqrt(2) * sqrt(ln(plays of p - 1) / plays) for the exploration term.
UCB1(ns, p, c) ==
    LET parent_plays_minus_one == ns[p + 1].plays - 1
        exploitation == (2 * ns[c + 1].plays - ns[c + 1].wins2) * 1000000
        exploration ==
            2 * parent_plays_minus_one
              * ExploreMicro[parent_plays_minus_one][ns[c + 1].plays]
    IN  exploitation + exploration

\* The first child of p, in child order, among those of highest potential.
BestByUCB1(ns, p) ==
    LET kids == ChildrenOf(ns, p)
    IN  kids[CHOOSE j \in 1..Len(kids) :
                /\ \A i \in 1..Len(kids) : UCB1(ns, p, kids[i]) <= UCB1(ns, p, kids[j])
                /\ \A i \in 1..(j - 1) : UCB1(ns, p, kids[i]) < UCB1(ns, p, kids[j])]

\* The node a walk down from n stops at when it goes, from a node whose
\* children all have a play, into the child BestByUCB1 names.
RECURSIVE UCB1Walk(_, _, _)
UCB1Walk(ns, n, k) ==
    IF ns[n + 1].plays = 0 \/ k = 0 \/ ns[n + 1].children = None THEN n
    ELSE IF Len(ChildrenOf(ns, n)) = 0 THEN n
    ELSE LET kids == ChildrenOf(ns, n)
             zero == {j \in 1..Len(kids) : ns[kids[j] + 1].plays = 0}
         IN  IF zero # {}
             THEN kids[CHOOSE j \in zero : \A i \in zero : j <= i]
             ELSE UCB1Walk(ns, BestByUCB1(ns, n), k - 1)

\* C27: in a round, from a node whose children all have a play selection
\* goes into the child of highest potential (plays - wins) / (parent plays -
\* 1) + sqrt(2) * sqrt(ln(parent plays - 1) / plays), the first in child
\* order on ties; and every call of potential has a child with at least one
\* play and parent plays - 1 >= 1 for its argument.
C27_SelectionDescendsByUCB1 ==
    (AgentAlive /\ phase = "rounds" /\ rounds_done < N_ROUNDS) =>
        /\ \A s \in selection(nodes, root_id) :
              s.selected = UCB1Walk(s.nodes, root_id, Len(s.nodes))
        /\ \A c \in potential_calls(nodes, root_id, Len(nodes) + 1) :
              /\ c.total_plays >= 1
              /\ nodes[c.child + 1].plays >= 1

\* A round has gone from the root, all of whose children had a play, into
\* one of them: that child has a second play.
C27_Witness ==
    /\ AgentAlive
    /\ phase = "rounds"
    /\ nodes[root_id + 1].children # None
    /\ Len(ChildrenOf(nodes, root_id)) >= 2
    /\ \A j \in 1..Len(ChildrenOf(nodes, root_id)) :
          nodes[ChildrenOf(nodes, root_id)[j] + 1].plays >= 1
    /\ \E j \in 1..Len(ChildrenOf(nodes, root_id)) :
          nodes[ChildrenOf(nodes, root_id)[j] + 1].plays >= 2

\* C28: make_children on an unexpanded node of the arena adds exactly one
\* node per entry of the node's possible_moves and changes nothing else but
\* the node's children list, which names the new nodes in the order of the
\* moves; child i has the board of the node after possible_moves[i] made by
\* the node's active player, the node for its parent, no play, no win and no
\* children list.  A node with a terminal board gets the empty list.
C28_MakeChildrenOnePerMove ==
    AgentAlive =>
        \A p \in {n \in NodeIds : nodes[n + 1].children = None} :
            \A ex \in make_children(nodes, p) :
                LET node == nodes[p + 1]
                    k == Len(node.possible_moves)
                IN  /\ Len(ex) = Len(nodes) + k
                    /\ \A n \in NodeIds \ {p} : ex[n + 1] = nodes[n + 1]
                    /\ ex[p + 1].children # None
                    /\ ex[p + 1] = [node EXCEPT !.children = ex[p + 1].children]
                    /\ Len(ChildrenOf(ex, p)) = k
                    /\ node.board.state # Playing => ex[p + 1].children = Some(<<>>)
                    /\ \A i \in 1..k :
                          LET child_id == ChildrenOf(ex, p)[i]
                              made == Board_make_move(node.board,
                                                      node.possible_moves[i][1],
                                                      node.possible_moves[i][2],
                                                      node.active_player)
                          IN  /\ child_id = Len(nodes) + i - 1
                              /\ made.panic = None
                              /\ ex[child_id + 1].board = made.board
                              /\ ex[child_id + 1].parent = Some(p)
                              /\ ex[child_id + 1].plays = 0
                              /\ ex[child_id + 1].wins2 = 0
                              /\ ex[child_id + 1].children = None

\* The arena holds a node expanded into three children in the order of its
\* moves, and a terminal node expanded into the empty list.
C28_Witness ==
    /\ AgentAlive
    /\ \E p \in NodeIds :
          /\ nodes[p + 1].children # None
          /\ Len(ChildrenOf(nodes, p)) = 3
          /\ \A i \in 1..3 :
                nodes[ChildrenOf(nodes, p)[i] + 1].board =
                   Game_play(nodes[p + 1].board, nodes[p + 1].possible_moves[i],
                             nodes[p + 1].active_player)
    /\ \E t \in NodeIds : nodes[t + 1].children = Some(<<>>)

\* Node record a without its parent link.
SansParent(a) == [a EXCEPT !.parent = None]

\* C29: reroot to any node changes no node's plays, wins, board, active
\* player, possible_moves or children list and keeps the arena's length;
\* over each of the two steps of choose_move that reroot (after locating the
\* board, and at the return) every node that existed keeps its plays, wins,
\* board, active player and possible_moves, and its children list unless it
\* is the root that find_state has just expanded.
C29_RerootKeepsStatistics ==
    [][(AgentAlive /\ phase' # phase /\ panic' = None) =>
          /\ \A new_root_id \in NodeIds :
                LET r == reroot(nodes, root_id, new_root_id)
                IN  /\ r.root_id = new_root_id
                    /\ Len(r.nodes) = Len(nodes)
                    /\ \A n \in NodeIds :
                          SansParent(r.nodes[n + 1]) = SansParent(nodes[n + 1])
          /\ Len(nodes') >= Len(nodes)
          /\ \A n \in NodeIds :
                /\ nodes'[n + 1].plays = nodes[n + 1].plays
                /\ nodes'[n + 1].wins2 = nodes[n + 1].wins2
                /\ nodes'[n + 1].board = nodes[n + 1].board
                /\ nodes'[n + 1].active_player = nodes[n + 1].active_player
                /\ nodes'[n + 1].possible_moves = nodes[n + 1].possible_moves
                /\ \/ nodes'[n + 1].children = nodes[n + 1].children
                   \/ (n = root_id /\ phase = "idle" /\ nodes[n + 1].children = None)]_vars

\* A choose_move call has just located the board of a root that an earlier
\* call advanced to: the root still has the plays it got below the former
\* root.
C29_Witness ==
    /\ AgentAlive
    /\ phase = "rounds"
    /\ rounds_done = 0
    /\ root_id # 0
    /\ nodes[root_id + 1].plays > 0
    /\ nodes[root_id + 1].children # None

\* C30: whenever a call of switch_starting_mark would succeed (the agent is
\* between calls and the arena has one node), the root is node 0 and has no
\* plays, no wins and no children; and a choose_move call cannot return
\* while the arena has one node, so that a one-node arena with a play exists
\* only inside a call.
C30_SwitchOnlyBeforeExploration ==
    AgentAlive =>
       /\ (phase = "idle" /\ switch_starting_mark(nodes).panic = None) =>
             /\ root_id = 0
             /\ Len(nodes) = 1
             /\ nodes[1].plays = 0
             /\ nodes[1].wins2 = 0
             /\ nodes[1].children = None
             /\ nodes[1].parent = None
       /\ Len(nodes) = 1 => choose_move_best(nodes, root_id, ai_mark).panic # None

\* The starting mark has been switched on the arena that a reset made after a
\* choose_move call had explored the tree and returned a move.
C30_Witness ==
    /\ AgentAlive
    /\ phase = "idle"
    /\ best_move # None
    /\ Len(nodes) = 1
    /\ nodes[1].active_player = "O"
    /\ nodes[1].plays = 0

\* Inside a choose_move call the one-node arena has a play: the first round
\* has credited the root, which the second round is to expand.
C30_WitnessInsideCall ==
    /\ AgentAlive
    /\ phase = "rounds"
    /\ Len(nodes) = 1
    /\ nodes[1].plays = 1

----------------------------------------------------------------------------
(* Properties of the boards, continued *)

\* The number of cells of board b that hold mark m.
CountMark(b, m) == Cardinality({i \in CellIdx : b.cells[i] = Some(m)})

\* The lines of board b that hold three equal marks.
CompletedLines(b) ==
    {l \in Lines : \E m \in Mark : \A p \in l : Board_get(b, p[1], p[2]) = Some(m)}

\* The step is a make_move on the standalone board that returned, and it
\* continues a game of alternating marks: before it the board is Playing (so
\* it has no line yet) and the mover has as many marks as the opponent or
\* one less.
AlternatingMove ==
    /\ subject = "SmallBoard"
    /\ SmallMakeMove
    /\ panic' = None
    /\ \E m \in Mark : \E o \in Mark \ {m} :
          /\ CountMark(board', m) = CountMark(board, m) + 1
          /\ CountMark(board, m) <= CountMark(board, o)
          /\ CountMark(board, o) <= CountMark(board, m) + 1

\* C31, as stated: a make_move that continues a game of alternating marks
\* completes at most one of the eight lines.
C31_AtMostOneLine ==
    [][AlternatingMove => Cardinality(CompletedLines(board')) <= 1]_vars

\* C31, amended: a make_move that continues a game of alternating marks
\* completes at most two of the eight lines, and every line it completes
\* goes through the cell just played and holds the mover's mark.
C31_AtMostTwoLines ==
    [][AlternatingMove =>
          /\ CompletedLines(board) = {}
          /\ Cardinality(CompletedLines(board')) <= 2
          /\ \A l \in CompletedLines(board') : \E p \in l :
                /\ Board_get(board, p[1], p[2]) = None
                /\ \A q \in l : Board_get(board', q[1], q[2]) = Board_get(board', p[1], p[2])]_vars

\* A game of alternating marks has ended with the fifth X completing two
\* lines at once.
C31_Witness ==
    /\ subject = "SmallBoard"
    /\ panic = None
    /\ Cardinality(CompletedLines(board)) = 2
    /\ CountMark(board, "X") = 5
    /\ CountMark(board, "O") = 4
    /\ board.state = Won("X")

\* The lines of sub-boards of bb that are won three times by one mark.
CompletedMetaLines(bb) ==
    {l \in Lines : \E m \in Mark : \A p \in l : SubState(bb, p) = Won(m)}

\* C32: whenever a make_move that returned (a step that changes the board)
\* leaves the standalone board in state Won(w), w is the mark just played, the move has completed a line,
\* and every complete line of the board holds w; whenever a
\* BigBoard::make_move that returned leaves the meta state Won(w), w is the
\* mark just played, the sub-board played is Won(w), and every complete line
\* of sub-boards is won by w and goes through the sub-board played.  So the
\* winner is the same whichever complete line is found first.
C32_WinnerIsMover ==
    [][/\ (subject = "SmallBoard" /\ board' # board /\ board'.state[1] = "Won") =>
             \E m \in Mark :
                /\ CountMark(board', m) = CountMark(board, m) + 1
                /\ board'.state = Won(m)
                /\ CompletedLines(board) = {}
                /\ CompletedLines(board') # {}
                /\ \A l \in CompletedLines(board') : \A p \in l :
                      Board_get(board', p[1], p[2]) = Some(m)
       /\ (subject = "BigBoard" /\ big_board' # big_board /\ big_board'.state[1] = "Won") =>
             LET mv == last_move'[1]
             IN  /\ big_board'.state = Won(mv[5])
                 /\ SubState(big_board', <<mv[1], mv[2]>>) = Won(mv[5])
                 /\ CompletedMetaLines(big_board) = {}
                 /\ CompletedMetaLines(big_board') # {}
                 /\ \A l \in CompletedMetaLines(big_board') :
                       /\ <<mv[1], mv[2]>> \in l
                       /\ \A p \in l : SubState(big_board', p) = Won(mv[5])]_vars

\* The standalone board has been won by O with a move that completed two
\* lines, one of them a diagonal (checked first) and one a row or column.
C32_Witness ==
    /\ subject = "SmallBoard"
    /\ panic = None
    /\ board.state = Won("O")
    /\ Cardinality(CompletedLines(board)) = 2
    /\ \E l \in CompletedLines(board) : <<1, 1>> \in l /\ <<0, 1>> \notin l /\ <<1, 0>> \notin l

\* The Ultimate board has been won by the move that took a sub-board.
C32_WitnessBig ==
    /\ subject = "BigBoard"
    /\ panic = None
    /\ big_board.state[1] = "Won"
    /\ CompletedMetaLines(big_board) # {}

----------------------------------------------------------------------------
(* Properties of the MCTS agent in a game *)

\* C33: in a game that the mark recorded at the root opens, in which the
\* caller plays each returned move with ai_mark and the opponent answers
\* with any legal move, the 'not found' panic never happens: whenever
\* choose_move(board) can be called, find_state finds the board at the root
\* or among the root's children, which it makes if the root has none.
C33_BoardAlwaysLocated ==
    /\ panic # Some(MsgNotFound)
    /\ (/\ panic = None
        /\ phase = "idle"
        /\ board.state = Playing
        /\ ToMove = ai_mark
        /\ ~MovePending) =>
          \A r \in find_state(nodes, root_id, board) :
             /\ r.panic = None
             /\ r.nodes[r.id + 1].board = board
             /\ \/ r.id = root_id
                \/ \E i \in DOMAIN r.nodes[root_id + 1].children[1] :
                      r.nodes[root_id + 1].children[1][i] = r.id

\* A later choose_move has located the board that follows the agent's first
\* move and the opponent's answer among the children of the advanced root.
C33_Witness ==
    /\ panic = None
    /\ phase = "rounds"
    /\ last_move # None
    /\ last_move[1][3] # ai_mark
    /\ arg_board = Some(board)
    /\ CountMark(board, ai_mark) = 4
    /\ nodes[root_id + 1].board = board
    /\ root_id # 0

----------------------------------------------------------------------------
(* Properties of the MCTS agent: counts *)

\* The sum of the plays of the nodes ids[1..i] of arena ns.
RECURSIVE SumPlays(_, _, _)
SumPlays(ns, ids, i) ==
    IF i = 0 THEN 0 ELSE ns[ids[i] + 1].plays + SumPlays(ns, ids, i - 1)

\* C34: between rounds, every node of the current root's subtree that has
\* at least one child has 1 + the sum of its children's plays for plays;
\* and every round that finishes adds exactly 1 to the root's plays.
C34_VisitCountConservation ==
    /\ [](AgentAlive =>
            \A n \in Subtree(nodes, root_id) :
               LET node == nodes[n + 1]
               IN  (node.children # None /\ Len(node.children[1]) >= 1) =>
                      node.plays = 1 + SumPlays(nodes, node.children[1], Len(node.children[1])))
    /\ [][(AgentAlive /\ phase = "rounds" /\ rounds_done' = rounds_done + 1) =>
             nodes'[root_id + 1].plays = nodes[root_id + 1].plays + 1]_vars

\* After a root advance and further rounds the root and one of its children
\* both have children with plays.
C34_Witness ==
    /\ AgentAlive
    /\ root_id # 0
    /\ nodes[root_id + 1].plays >= 3
    /\ nodes[root_id + 1].children # None
    /\ \E i \in DOMAIN nodes[root_id + 1].children[1] :
          LET c == nodes[nodes[root_id + 1].children[1][i] + 1]
          IN  /\ c.plays >= 2
              /\ c.children # None
              /\ Len(c.children[1]) >= 1

\* C35: in every reachable arena each child's active player is the other
\* mark than its parent's, and every node has 0 <= wins <= plays; and a
\* round that finishes credits each parent and child that are both on the
\* path a total of exactly one win: 1 and 0 in either order, or 0.5 each.
C35_OppositePlayersShareOneWin ==
    /\ [](AgentAlive =>
            \A n \in NodeIds :
               /\ nodes[n + 1].wins2 >= 0
               /\ nodes[n + 1].wins2 <= 2 * nodes[n + 1].plays
               /\ nodes[n + 1].children # None =>
                     \A i \in DOMAIN nodes[n + 1].children[1] :
                        LET c == nodes[n + 1].children[1][i]
                        IN  /\ nodes[c + 1].active_player \in Mark
                            /\ nodes[c + 1].active_player # nodes[n + 1].active_player)
    /\ [][(AgentAlive /\ phase = "rounds" /\ rounds_done' = rounds_done + 1) =>
             \A c \in StatsChanged :
                (nodes[c + 1].parent # None /\ nodes[c + 1].parent[1] \in StatsChanged) =>
                   LET p == nodes[c + 1].parent[1]
                       dc == nodes'[c + 1].wins2 - nodes[c + 1].wins2
                       dp == nodes'[p + 1].wins2 - nodes[p + 1].wins2
                   IN  /\ dc + dp = 2
                       /\ <<dp, dc>> \in {<<2, 0>>, <<0, 2>>, <<1, 1>>}]_vars

\* Below one parent a child has won every playout through it, a second has
\* a drawn playout and the parent holds what they left over.
C35_Witness ==
    /\ AgentAlive
    /\ \E n \in NodeIds :
          /\ nodes[n + 1].children # None
          /\ Len(nodes[n + 1].children[1]) >= 2
          /\ \E i, j \in DOMAIN nodes[n + 1].children[1] :
                LET c == nodes[nodes[n + 1].children[1][i] + 1]
                    d == nodes[nodes[n + 1].children[1][j] + 1]
                IN  /\ c.plays >= 1
                    /\ c.wins2 = 2 * c.plays
                    /\ d.wins2 = 1
                    /\ nodes[n + 1].wins2 >= 1

\* Node record a without the order of its possible moves.
SansMoveOrder(a) == [a EXCEPT !.possible_moves = SeqToSet(@)]

C36_WitnessAfter ==
    /\ AgentAlive
    /\ phase = "idle"
    /\ best_move # None
    /\ Len(nodes) = 1
    /\ nodes[1].active_player = "X"
    /\ ai_mark = "O"

----------------------------------------------------------------------------
(* Properties of the boards: rejected moves *)

\* C37: a make_move that ends in a panic has changed nothing.  In every
\* reachable state, for any arguments, a rejected SmallBoard::make_move
\* leaves the cells and the state, and a rejected BigBoard::make_move leaves
\* every sub-board, the meta state and active_board, as they were; and the
\* step that ends in the panic changes neither board.
C37_RejectedMoveChangesNothing ==
    /\ [](panic = None =>
            /\ subject = "SmallBoard" =>
                  \A row \in Idx, col \in Idx, mark \in Mark :
                     LET r == Board_make_move(board, row, col, mark)
                     IN  /\ r.panic # None <=>
                               (board.state # Playing \/ Board_get(board, row, col) # None)
                         /\ r.panic # None =>
                               /\ r.board.cells = board.cells
                               /\ r.board.state = board.state
            /\ subject = "BigBoard" =>
                  \A mv \in BigArgs :
                     LET r == BigBoard_make_move(big_board, mv[1], mv[2], mv[3], mv[4], mv[5])
                     IN  r.panic # None =>
                            /\ r.board.boards = big_board.boards
                            /\ r.board.state = big_board.state
                            /\ r.board.active_board = big_board.active_board)
    /\ [][(panic = None /\ panic' # None) =>
             (board' = board /\ big_board' = big_board)]_vars

\* A move into an occupied cell of the active sub-board has been rejected
\* in the middle of a game.
C37_Witness ==
    /\ subject = "BigBoard"
    /\ panic = Some(MsgOccupied)
    /\ big_board.state = Playing
    /\ big_board.active_board # None
    /\ \E p \in Idx \X Idx : SubState(big_board, p) # Playing

\* The other three rejections on the Ultimate board, and the two on the
\* standalone board.
C37_WitnessWrongBoard == subject = "BigBoard" /\ panic = Some(MsgWrongBoard)
C37_WitnessTerminalSubBoard ==
    subject = "BigBoard" /\ panic = Some(MsgCompleted) /\ big_board.state = Playing
C37_WitnessTerminalBigBoard == subject = "BigBoard" /\ panic = Some(MsgBigCompleted)
C37_WitnessSmall ==
    subject = "SmallBoard" /\ panic \in {Some(MsgCompleted), Some(MsgOccupied)}

----------------------------------------------------------------------------
(* A local two-player game driven by the six inputs alone *)

InitLocalPvP ==
    /\ subject = "GamePlayTTT"
    /\ board = Board_new
    /\ big_board = BigBoard_new
    /\ followed = 0
    /\ moves = 0
    /\ last_move = None
    /\ panic = None
    /\ nodes = <<>>
    /\ root_id = 0
    /\ ai_mark = "X"
    /\ phase = "idle"
    /\ rounds_done = 0
    /\ arg_board = None
    /\ best_move = None
    /\ menu = Menu_new(MAIN_MENU_OPTIONS)
    /\ menu_prev = menu
    /\ game = GamePlayTTT_new("LocalPvP")
    /\ call = "new"
    /\ app = App_new

NextLocalPvP ==
    \/ InputLeft
    \/ InputRight
    \/ InputUp
    \/ InputDown
    \/ PlayerMove
    \/ ResetGame

SpecLocalPvP == InitLocalPvP /\ [][NextLocalPvP]_vars
\* The cell under the cursor of the game scene.
SelectedCell == Board_get(game.board, game.selected.row, game.selected.col)

\* C38: in a local two-player game driven by input_left, input_right,
\* input_up, input_down, player_move and reset_game alone, the cursor is on
\* an empty cell whenever the board is Playing, no call ends in a panic, and
\* a player_move on a Playing board places the active player's mark.
C38_CursorOnEmptyCell ==
    /\ [](/\ panic = None
          /\ game.mode = "LocalPvP"
          /\ game.board.state = Playing => SelectedCell = None
          /\ \A r \in GamePlayTTT_player_move(game) : r.panic = None)
    /\ [][(PlayerMove /\ game.board.state = Playing) =>
             /\ game'.turn = game.turn + 1
             /\ Board_get(game'.board, game.selected.row, game.selected.col)
                   = Some(game.active_player)]_vars

\* In the middle of a game an input has taken the cursor past occupied
\* cells to an empty cell that is not the first one in row-major order.
C38_Witness ==
    /\ subject = "GamePlayTTT"
    /\ panic = None
    /\ game.board.state = Playing
    /\ game.turn >= 4
    /\ SelectedCell = None
    /\ game.selected # reset_position(Board_playable(game.board))
    /\ Board_get(game.board, game.selected.row, (game.selected.col + 1) % 3) # None
    /\ Board_get(game.board, (game.selected.row + 1) % 3, game.selected.col) # None

----------------------------------------------------------------------------
(* An Ultimate game scene driven by the seven inputs alone.  The players    *)
(* may follow the recorded game, and play up to MaxMoves moves off it.      *)

InitUTT ==
    /\ subject = "GamePlayUTT"
    /\ board = Board_new
    /\ big_board = BigBoard_new
    /\ followed = 0
    /\ moves = 0
    /\ last_move = None
    /\ panic = None
    /\ nodes = <<>>
    /\ root_id = 0
    /\ ai_mark = "X"
    /\ phase = "idle"
    /\ rounds_done = 0
    /\ arg_board = None
    /\ best_move = None
    /\ menu = Menu_new(MAIN_MENU_OPTIONS)
    /\ menu_prev = menu
    /\ game = GamePlayUTT_new("LocalPvP")
    /\ call = "new"
    /\ app = App_new

\* The variables no call on the Ultimate game scene touches.
utt_frame == <<subject, board, big_board, last_move, menu, menu_prev, call, app>>

\* game.input_left().
UttInputLeft ==
    /\ subject = "GamePlayUTT"
    /\ panic = None
    /\ game' = GamePlayUTT_input_move(game, "left")
    /\ UNCHANGED <<utt_frame, ai_vars, panic, followed, moves>>

\* game.input_right().
UttInputRight ==
    /\ subject = "GamePlayUTT"
    /\ panic = None
    /\ game' = GamePlayUTT_input_move(game, "right")
    /\ UNCHANGED <<utt_frame, ai_vars, panic, followed, moves>>

\* game.input_up().
UttInputUp ==
    /\ subject = "GamePlayUTT"
    /\ panic = None
    /\ game' = GamePlayUTT_input_move(game, "up")
    /\ UNCHANGED <<utt_frame, ai_vars, panic, followed, moves>>

\* game.input_down().
UttInputDown ==
    /\ subject = "GamePlayUTT"
    /\ panic = None
    /\ game' = GamePlayUTT_input_move(game, "down")
    /\ UNCHANGED <<utt_frame, ai_vars, panic, followed, moves>>

\* game.input_enter().  A move that is accepted is the next one of the
\* recorded game, or one of the MaxMoves moves off it.
UttInputEnter ==
    /\ subject = "GamePlayUTT"
    /\ panic = None
    /\ \E r \in {GamePlayUTT_input_enter(game)} :
       LET played == r.panic = None /\ r.game.turn # game.turn
           recorded == /\ moves = 0
                       /\ followed < Len(RecordedGame)
                       /\ game.selected_cell # None
                       /\ RecordedGame[followed + 1] =
                             <<game.selected_board.row, game.selected_board.col,
                               game.selected_cell[1].row, game.selected_cell[1].col,
                               game.active_player>>
       IN  /\ (played /\ ~recorded) => moves < MaxMoves
           /\ game' = r.game
           /\ panic' = r.panic
           /\ moves' = IF played /\ ~recorded THEN moves + 1 ELSE moves
           /\ followed' = IF played /\ recorded THEN followed + 1 ELSE followed
    /\ UNCHANGED <<utt_frame, ai_vars>>

\* game.input_esc().
UttInputEsc ==
    /\ subject = "GamePlayUTT"
    /\ panic = None
    /\ game' = GamePlayUTT_input_esc(game)
    /\ UNCHANGED <<utt_frame, ai_vars, panic, followed, moves>>

\* game.reset_game(): a new game, which may follow the recorded one again.
UttResetGame ==
    /\ subject = "GamePlayUTT"
    /\ panic = None
    /\ game' = GamePlayUTT_reset_game(game)
    /\ followed' = 0
    /\ moves' = 0
    /\ UNCHANGED <<utt_frame, ai_vars, panic>>

NextUTT ==
    \/ UttInputLeft
    \/ UttInputRight
    \/ UttInputUp
    \/ UttInputDown
    \/ UttInputEnter
    \/ UttInputEsc
    \/ UttResetGame

SpecUTT == InitUTT /\ [][NextUTT]_vars

\* The sub-board and the cell under the cursors of the Ultimate game scene.
SelectedSubBoard ==
    get_board(game.big_board, game.selected_board.row, game.selected_board.col)

\* C39: under the seven inputs no call ends in a panic.  Whenever
\* input_enter would run player_move on a Playing game, a cell is selected,
\* the selected sub-board is Playing and is the active one when there is an
\* active one, and the selected cell is empty.  While a sub-board is active
\* and the game is Playing, it is the selected sub-board and a cell is
\* selected, and no input that leaves the board as it is changes the
\* selected sub-board or deselects the cell.
C39_UttInputsNeverPanic ==
    /\ [](/\ panic = None
          /\ GamePlayUTT_input_enter(game).panic = None
          /\ (game.big_board.state = Playing /\ game.selected_cell # None) =>
                /\ SelectedSubBoard.state = Playing
                /\ game.big_board.active_board \in
                      {None, Some(<<game.selected_board.row, game.selected_board.col>>)}
                /\ Board_get(SelectedSubBoard, game.selected_cell[1].row,
                             game.selected_cell[1].col) = None
          /\ (game.big_board.state = Playing /\ game.selected_cell = None) =>
                SelectedSubBoard.state = Playing
          /\ (game.big_board.state = Playing /\ game.big_board.active_board # None) =>
                /\ game.selected_cell # None
                /\ game.big_board.active_board =
                      Some(<<game.selected_board.row, game.selected_board.col>>))
    /\ [][(/\ game.big_board.state = Playing
           /\ game.big_board.active_board # None
           /\ game'.big_board = game.big_board) =>
             /\ game'.selected_board = game.selected_board
             /\ game'.selected_cell # None]_vars

\* After a sub-board was finished no sub-board is active, and the players
\* have moved the cursor to a sub-board that is not the first playable one
\* and selected a cell of it other than its first empty one.
C39_Witness ==
    /\ subject = "GamePlayUTT"
    /\ panic = None
    /\ game.big_board.state = Playing
    /\ game.big_board.active_board = None
    /\ \E p \in Idx \X Idx : SubState(game.big_board, p) # Playing
    /\ game.selected_cell # None
    /\ game.selected_board # reset_position(BigBoard_playable(game.big_board))
    /\ game.selected_cell[1] # reset_position(Board_playable(SelectedSubBoard))
----------------------------------------------------------------------------
(* The App under the Up, Down, Enter and Esc keys, and under a caller of    *)
(* the public go_to_ai_menu.  The run loop stops at should_quit, and a      *)
(* panic ends the program.                                                  *)

\* The number of moves after which the Ultimate game of the App is left alone.
AppMaxTurns == MaxMoves + 1

AppRunning == subject = "App" /\ panic = None /\ ~app.should_quit

AppScene == app.current_scene

app_frame == <<subject, board, big_board, followed, moves, last_move, ai_vars,
               menu, menu_prev, game, call>>

InitApp ==
    /\ subject = "App"
    /\ board = Board_new
    /\ big_board = BigBoard_new
    /\ followed = 0
    /\ moves = 0
    /\ last_move = None
    /\ panic = None
    /\ nodes = <<>>
    /\ root_id = 0
    /\ ai_mark = "X"
    /\ phase = "idle"
    /\ rounds_done = 0
    /\ arg_board = None
    /\ best_move = None
    /\ menu = Menu_new(MAIN_MENU_OPTIONS)
    /\ menu_prev = menu
    /\ game = GamePlayTTT_new("LocalPvP")
    /\ call = "new"
    /\ app = App_new

\* App::handle_up
AppHandleUp ==
    /\ AppRunning
    /\ app' = [app EXCEPT !.current_scene =
                 CASE AppScene[1] = "PlayingTTT" ->
                        <<"PlayingTTT", GamePlayTTT_input_up(AppScene[2])>>
                   [] AppScene[1] = "PlayingUTT" ->
                        <<"PlayingUTT", GamePlayUTT_input_move(AppScene[2], "up")>>
                   [] AppScene[1] = "AIMenu" ->
                        <<"AIMenu", Menu_move_up(AppScene[2]), AppScene[3]>>
                   [] OTHER -> <<AppScene[1], Menu_move_up(AppScene[2])>>]
    /\ UNCHANGED <<app_frame, panic>>

\* App::handle_down
AppHandleDown ==
    /\ AppRunning
    /\ app' = [app EXCEPT !.current_scene =
                 CASE AppScene[1] = "PlayingTTT" ->
                        <<"PlayingTTT", GamePlayTTT_input_down(AppScene[2])>>
                   [] AppScene[1] = "PlayingUTT" ->
                        <<"PlayingUTT", GamePlayUTT_input_move(AppScene[2], "down")>>
                   [] AppScene[1] = "AIMenu" ->
                        <<"AIMenu", Menu_move_down(AppScene[2]), AppScene[3]>>
                   [] OTHER -> <<AppScene[1], Menu_move_down(AppScene[2])>>]
    /\ UNCHANGED <<app_frame, panic>>

\* App::handle_enter
AppHandleEnter ==
    /\ AppRunning
    /\ AppScene[1] = "PlayingUTT" => AppScene[2].turn < AppMaxTurns
    /\ \E r \in App_handle_enter(app) :
           /\ app' = r.app
           /\ panic' = r.panic
    /\ UNCHANGED app_frame

\* App::handle_esc
AppHandleEsc ==
    /\ AppRunning
    /\ app' = App_handle_esc(app)
    /\ UNCHANGED <<app_frame, panic>>

\* App::go_to_ai_menu, called with either status
AppGoToAiMenu ==
    /\ AppRunning
    /\ \E status \in AIMenuStatus :
           app' = GoTo(app, <<"AIMenu", Menu_new(AI_MENU_OPTIONS), status>>).app
    /\ UNCHANGED <<app_frame, panic>>

NextApp ==
    \/ AppHandleUp
    \/ AppHandleDown
    \/ AppHandleEnter
    \/ AppHandleEsc
    \/ AppGoToAiMenu

SpecApp == InitApp /\ [][NextApp]_vars

----------------------------------------------------------------------------
(* Properties of the App *)

\* C40: the AI menu keeps the game kind it was opened for: Enter on a
\* difficulty option starts a classic game (PlayingTTT) when the menu is that
\* of the Tic Tac Toe menu and an Ultimate game (PlayingUTT) when it is that
\* of the Ultimate Tic Tac Toe menu, and Esc returns to the menu it was
\* opened from.
C40_AiMenuKeepsGameKind ==
    [][(AppRunning /\ AppScene[1] = "AIMenu" /\ app' # app /\ app'.current_scene[1] # "AIMenu")
       => \/ /\ AppScene[3] = "TTTpve"
             /\ app'.current_scene[1] \in {"PlayingTTT", "TTTMenu"}
          \/ /\ AppScene[3] = "UTTpve"
             /\ app'.current_scene[1] \in {"PlayingUTT", "UTTMenu"}]_vars

\* C40, the part of Esc alone: Esc in the AI menu returns to the menu of the
\* game kind, with its first option selected.
C40_EscReturnsToOpeningMenu ==
    [][(AppRunning /\ AppScene[1] = "AIMenu" /\ app' = App_handle_esc(app))
       => app'.current_scene =
              IF AppScene[3] = "TTTpve" THEN <<"TTTMenu", Menu_new(TTT_MENU_OPTIONS)>>
              ELSE <<"UTTMenu", Menu_new(UTT_MENU_OPTIONS)>>]_vars

\* C40, the difficulty Weak alone: Enter on Weak starts the game of the
\* menu's kind.
C40_WeakKeepsGameKind ==
    [][(AppRunning /\ AppScene[1] = "AIMenu" /\ Menu_get_selected(AppScene[2]) = "Weak"
        /\ app'.current_scene[1] \in {"PlayingTTT", "PlayingUTT"})
       => app'.current_scene[1] =
              IF AppScene[3] = "TTTpve" THEN "PlayingTTT" ELSE "PlayingUTT"]_vars

\* A classic game started in PvE mode is on screen.
C40_WitnessClassicPvE ==
    /\ subject = "App"
    /\ AppScene[1] = "PlayingTTT"
    /\ AppScene[2].mode = "PvE"

\* An Ultimate game started in PvE mode is on screen.
C40_WitnessUltimatePvE ==
    /\ subject = "App"
    /\ AppScene[1] = "PlayingUTT"
    /\ AppScene[2].mode = "PvE"


====
